---- MODULE Spec2Model ----
(***************************************************************************)
(* Otter window switcher (bitstrike/otter): the display state machine, the *)
(* window-directory reliability layer and the thumbnail cache of the       *)
(* otter_new package, modelled as state machines.                          *)
(*                                                                         *)
(* Four specifications share the variables of this module:                 *)
(*   Spec      - the display state machine (main.py, input.py, tray.py)    *)
(*   SpecDir   - the window directory (windows.py) and the handles the     *)
(*               context menu takes from it (ui.py)                        *)
(*   SpecCache - the thumbnail cache (screenshots.py)                      *)
(*   SpecFn    - the pure functions: check_edge_trigger, get_screenshot,   *)
(*               the filter and the MRU ordering of get_user_windows       *)
(* Each specification changes its own variables only, but for the clock,   *)
(* now, shared by Spec and SpecDir, and the call record, fn_call, which    *)
(* SpecCache writes too.  All times are in milliseconds.                   *)
(***************************************************************************)
EXTENDS Integers, Sequences, FiniteSets, TLC

(***************************************************************************)
(* Program constants (src/otter_new/constants.py and literals in the code) *)
(***************************************************************************)
EDGE_TRIGGER_THRESHOLD == 5

MOUSE_POLL_INTERVAL == 100

MAX_CACHE_SIZE == 100

WNCK_RECREATION_INTERVAL == 3600

WNCK_MAX_CALLS == 10000

WNCK_GRACE_PERIOD == 2

\* input.py:129  "if time_since_show < 0.3", in milliseconds
ShowGraceMs == 300

\* input.py:154  "buffer = 10"
HotboxBuffer == 10

\* windows.py:194,205  "time.sleep(0.2)", in milliseconds
SettleMs == 200

\* input.py:360  "GLib.timeout_add(200, self._redisplay_after_workspace_switch)"
RedisplayDelayMs == 200

(***************************************************************************)
(* Bounds of the model                                                     *)
(***************************************************************************)
\* the clock value at which the display model starts (time.time() is far from 0)
StartTime == 1000

\* the clock of the display model does not run further than this past StartTime
DisplayHorizon == 300

\* monitor and panel geometry used by the display model
MonW == 1920

MonH == 1080

PanelW == 800

PanelH == 600

\* the configured hide delay (--delay MS) when it is not 0
DelayMs == 100

\* the configured suppress duration (--hide SECONDS, a float) when it is not 0, in ms
SuppressMs == 200

\* the hide delays of the timed model (--delay MS): shorter and longer than
\* MOUSE_POLL_INTERVAL
ShortDelayMs == 50

LongDelayMs == 200

\* at most this many deferred _populate_windows calls are queued at once
MaxIdlePopulate == 1

\* at most this many deferred hide_window calls are queued at once
MaxIdleHide == 1

\* at most this many workspace-switch redisplay timers are pending at once
MaxRedisplay == 1

\* the window ids of the directory model are 1 .. MaxXid
MaxXid == 2

\* the model stops calling get_user_windows once this many recreations of the
\* handle were started
MaxRecreations == 2

\* the window ids of the cache model are 1 .. MaxWindows; the newest id is at
\* most FewWindows or at least MAX_CACHE_SIZE - 1 (few windows, or a number
\* of windows around the size limit of the cache)
MaxWindows == 102

FewWindows == 2

\* at most this many windows of the cache model close
MaxClosed == 2

\* the cache timer of the cache model fires at most this many times
MaxUpdates == 3

\* at most this many get_user_windows calls are counted on one handle before
\* the model stops calling (counted from 0, and again from WNCK_MAX_CALLS)
MaxDirCalls == 2

\* None in a time-valued field (next_show_time, delayed_hide_id)
NoTime == -1

\* the largest window count of a layout calculation
MaxLayoutWindows == 9

\* the largest --nrows and --ncols of a layout calculation
MaxGrid == 4

\* nrows is None: no --nrows was given
NoRows == 0

\* the longest list of records the ordering of get_user_windows is applied to
MaxSorted == 3

\* the most user windows open when the startup model starts
MaxStartupWindows == 3

\* the most keyboard_move timers of _on_drag_app pending at a time
MaxHeld == 1

\* no Wnck window: None
NoWindow == 0

\* a window id that is None or 0 (the code tests "if not xid")
NoXid == 0

VARIABLES
    \* ---- display state machine (OtterApp, EdgeDetector, OtterTrayIcon) ----
    otter_state,        \* OtterApp.otter_state: "hidden" | "visible" | "disabled"
    next_show_time,     \* OtterApp.next_show_time (NoTime models None)
    last_show_time,     \* OtterApp.last_show_time
    delayed_hide_id,    \* OtterApp.delayed_hide_id: due time of the pending _do_hide timer, NoTime if none
    can_hide,           \* OtterApp.can_hide
    menu_open,          \* a Gtk.Menu built by ContextMenu.show is popped up
    window_shown,       \* SwitcherWindow.window.get_visible()
    idle_hide,          \* number of queued GLib.idle_add(self.app.hide_window)
    idle_populate,      \* number of queued GLib.idle_add(self._populate_windows)
    redisplay_timers,   \* due times of the pending _redisplay_after_workspace_switch timers
    pointer,            \* pointer position <<x, y>>
    now,                \* the clock, milliseconds
    sampled,            \* timed specification: the sampling timer has fired at this instant
    cfg,                \* the configuration: edge, hide_delay, hide_duration, main_character
    last,               \* history: the handler that ran last, the state it started from
                        \* and what it observed
    \* ---- window directory (WindowManager) ----
    screen_wnck,        \* WindowManager.screen_wnck is not None
    wnck_recreating,    \* WindowManager.wnck_recreating
    wnck_last_recreation, \* WindowManager.wnck_last_recreation
    wnck_call_count,    \* WindowManager.wnck_call_count
    xserver,            \* the windows of the X server: id -> "closed" | "ok" | "filtered"
    dir_pc,             \* where the main loop is inside get_user_windows ("idle": outside)
    dir_last,           \* history: the directory call that runs or ran last, and what it did
    dir_recreations,    \* history: the number of recreate_wnck_screen calls so far
    held_windows,       \* the Wnck windows held by the pending keyboard_move timers
                        \* of ContextMenu._on_drag_app
    \* ---- thumbnail cache (ScreenshotManager) ----
    screenshot_cache,   \* ScreenshotManager.screenshot_cache: its keys in insertion order
    last_valid_screenshots, \* ScreenshotManager.last_valid_screenshots: its keys
    win_lo,             \* the user windows of the cache model are win_lo .. win_hi:
    win_hi,             \* the oldest window closes, a new window gets the next id
    cache_pc,           \* "startup" until preprocess_startup_thumbnails ran, then "running",
                        \* "quit" after cleanup()
    cache_updates,      \* history: the number of update_cache calls so far
    startup,            \* OtterApp.run() step by step: where it is, the progress reported,
                        \* startup_preprocessing_active, startup_splash, and the
                        \* tray's paused flag and the edge detector's monitor_id
    \* ---- calls of the pure functions ----
    fn_call,            \* the function called last and its arguments
    fn_ret              \* the value it returned

display_vars == << otter_state, next_show_time, last_show_time, delayed_hide_id,
                   can_hide, menu_open, window_shown, idle_hide, idle_populate,
                   redisplay_timers,  pointer,
                   now, sampled, cfg, last >>

dir_vars == << screen_wnck, wnck_recreating, wnck_last_recreation, wnck_call_count,
               xserver, dir_pc, dir_last, dir_recreations, held_windows >>

cache_vars == << screenshot_cache, last_valid_screenshots, win_lo, win_hi, cache_pc,
                 cache_updates, startup >>

fn_vars == << fn_call, fn_ret >>

vars == << display_vars, dir_vars, cache_vars, fn_vars >>

Edges == {"north", "south", "east", "west"}

Max(a, b) == IF a >= b THEN a ELSE b

Min(a, b) == IF a <= b THEN a ELSE b

(***************************************************************************)
(* geometry.py                                                             *)
(***************************************************************************)
Monitor == [x |-> 0, y |-> 0, width |-> MonW, height |-> MonH]

\* a faulty check_edge_trigger: the edge comparisons are strict, so the pixel at
\* exactly the threshold is outside the zone
check_edge_trigger_strict(x, y, edge, monitor, threshold) ==
    IF ~(monitor.x <= x /\ x < monitor.x + monitor.width
         /\ monitor.y <= y /\ y < monitor.y + monitor.height)
    THEN FALSE
    ELSE CASE edge = "north" -> y < monitor.y + threshold
           [] edge = "south" -> y > monitor.y + monitor.height - threshold
           [] edge = "east"  -> x > monitor.x + monitor.width - threshold
           [] edge = "west"  -> x < monitor.x + threshold
           [] OTHER -> FALSE

\* geometry.check_edge_trigger
check_edge_trigger(x, y, edge, monitor, threshold) ==
    IF ~(monitor.x <= x /\ x < monitor.x + monitor.width
         /\ monitor.y <= y /\ y < monitor.y + monitor.height)
    THEN FALSE
    ELSE CASE edge = "north" -> y <= monitor.y + threshold
           [] edge = "south" -> y >= monitor.y + monitor.height - threshold
           [] edge = "east"  -> x >= monitor.x + monitor.width - threshold
           [] edge = "west"  -> x <= monitor.x + threshold
           [] OTHER -> FALSE

\* geometry.position_window_at_edge
position_window_at_edge(window_width, window_height, edge, monitor) ==
    CASE edge = "south" ->
            << monitor.x + (monitor.width - window_width) \div 2,
               monitor.y + monitor.height - window_height >>
      [] edge = "east" ->
            << monitor.x + monitor.width - window_width,
               monitor.y + (monitor.height - window_height) \div 2 >>
      [] edge = "west" ->
            << monitor.x,
               monitor.y + (monitor.height - window_height) \div 2 >>
      [] OTHER ->
            << monitor.x + (monitor.width - window_width) \div 2, monitor.y >>

\* SwitcherWindow.position_at_edge: where the panel is once it is shown
PanelPos == position_window_at_edge(PanelW, PanelH, cfg.edge, Monitor)

\* EdgeDetector._mouse_in_window
mouse_in_window(x, y) ==
    /\ window_shown
    /\ PanelPos[1] <= x /\ x <= PanelPos[1] + PanelW
    /\ PanelPos[2] <= y /\ y <= PanelPos[2] + PanelH

\* a faulty hotbox test: the bounds are exclusive, so a pointer exactly
\* HotboxBuffer pixels outside the panel is outside the hotbox
in_hotbox_exclusive(x, y) ==
    /\ PanelPos[1] - HotboxBuffer < x /\ x < PanelPos[1] + PanelW + HotboxBuffer
    /\ PanelPos[2] - HotboxBuffer < y /\ y < PanelPos[2] + PanelH + HotboxBuffer

\* EdgeDetector._check_position, lines 155-158: the hotbox test
in_hotbox(x, y) ==
    /\ PanelPos[1] - HotboxBuffer <= x /\ x <= PanelPos[1] + PanelW + HotboxBuffer
    /\ PanelPos[2] - HotboxBuffer <= y /\ y <= PanelPos[2] + PanelH + HotboxBuffer

\* the pointer positions the model moves the pointer to: the centre of the panel,
\* a point 10 px and a point 11 px outside a side of the panel that has room for them,
\* and the points at and just outside the trigger zone of the configured edge
PointerPoints(edge) ==
    LET px == position_window_at_edge(PanelW, PanelH, edge, Monitor)[1]
        py == position_window_at_edge(PanelW, PanelH, edge, Monitor)[2]
        cx == px + PanelW \div 2
        cy == py + PanelH \div 2
        t  == EDGE_TRIGGER_THRESHOLD
        side == IF px - HotboxBuffer - 1 >= 0
                THEN { <<px - HotboxBuffer, cy>>, <<px - HotboxBuffer - 1, cy>> }
                ELSE { <<cx, py - HotboxBuffer>>, <<cx, py - HotboxBuffer - 1>> }
        zone == CASE edge = "north" -> { <<1, t>>, <<1, t + 1>> }
                  [] edge = "south" -> { <<1, MonH - t>>, <<1, MonH - t - 1>> }
                  [] edge = "east"  -> { <<MonW - t, 1>>, <<MonW - t - 1, 1>> }
                  [] OTHER          -> { <<t, 1>>, <<t + 1, 1>> }
    IN {<<cx, cy>>} \cup side \cup zone

(***************************************************************************)
(* The display state machine: main.py (OtterApp), input.py (EdgeDetector,  *)
(* ShiftMonitor, EventHandler), tray.py (OtterTrayIcon), ui.py             *)
(* (ContextMenu.show)                                                      *)
(***************************************************************************)
\* the history: op, the handler; from, the state it started in; init, it initiated a
\* hide; mon, the sampling tick found a monitor at the pointer; fs, the sampling
\* tick in Hidden: the directory's answer to "is the active window fullscreen";
\* enum, the handler called WindowManager.get_user_windows before it returned
Note(op, init, mon, fs, enum) ==
    last' = [op |-> op, from |-> otter_state, init |-> init, mon |-> mon, fs |-> fs,
             enum |-> enum]

\* every variable of the display state machine but the history
display_core == << otter_state, next_show_time, last_show_time, delayed_hide_id,
                   can_hide, menu_open, window_shown, idle_hide, idle_populate,
                   redisplay_timers,  pointer, now, cfg >>

\* the history names the handler that last had an effect: a handler that
\* returns without changing anything leaves the history as it is
NoteEffect(op, init) ==
    IF display_core' = display_core
    THEN UNCHANGED last
    ELSE Note(op, init, TRUE, FALSE, FALSE)

\* show_window gets past its state check and calls _populate_windows (line 283),
\* which calls get_user_windows (line 361)
show_window_populates == otter_state # "disabled"

\* the history of a handler that calls show_window
NoteShow(op) ==
    IF display_core' = display_core
    THEN UNCHANGED last
    ELSE Note(op, FALSE, TRUE, FALSE, show_window_populates)

\* the fields written by show_window, hide_window and _do_hide
hw == << otter_state, last_show_time, window_shown, delayed_hide_id >>

\* WindowManager.is_active_window_fullscreen: its answer (False without a handle
\* or when the query raises, the truth otherwise) and the number of calls it
\* makes on the handle.  query_ok: get_active_window / is_fullscreen do not raise
is_active_window_fullscreen(query_ok, active_fullscreen) ==
    IF ~screen_wnck THEN [answer |-> FALSE, handle_calls |-> 0]
    ELSE IF ~query_ok THEN [answer |-> FALSE, handle_calls |-> 1]
    ELSE [answer |-> active_fullscreen, handle_calls |-> 1]

\* OtterApp.show_window (the directory enumeration of _populate_windows
\* changes no field of the display state machine: the history records it)
show_window ==
    IF otter_state = "disabled"
    THEN UNCHANGED hw
    ELSE /\ otter_state' = "visible"
         /\ last_show_time' = now
         /\ window_shown' = TRUE
         /\ UNCHANGED delayed_hide_id

\* OtterApp._do_hide
do_hide ==
    /\ otter_state' = "hidden"
    /\ window_shown' = FALSE
    /\ delayed_hide_id' = NoTime
    /\ UNCHANGED last_show_time

\* OtterApp.hide_window
hide_window ==
    IF ~can_hide
    THEN UNCHANGED hw
    ELSE IF cfg.hide_delay > 0
         THEN /\ delayed_hide_id' = now + cfg.hide_delay
              /\ UNCHANGED << otter_state, last_show_time, window_shown >>
         ELSE do_hide

\* a hide was initiated by the step: the panel was hidden or a delayed hide was (re)armed
HideInitiated ==
    \/ otter_state = "visible" /\ otter_state' = "hidden"
    \/ delayed_hide_id' # NoTime /\ delayed_hide_id' # delayed_hide_id

\* EdgeDetector._check_position: what one sampling tick does.  monitors: the
\* answers get_monitor_at_point can give (TRUE: it finds a monitor)
check_position(monitors) ==
    /\ UNCHANGED << dir_vars, cache_vars, fn_vars, idle_populate >>
    /\ \E monitor_found \in monitors, query_ok \in BOOLEAN, active_fullscreen \in BOOLEAN :
        LET x == pointer[1]
            y == pointer[2]
            at_edge == check_edge_trigger(x, y, cfg.edge, Monitor, EDGE_TRIGGER_THRESHOLD)
            fs == is_active_window_fullscreen(query_ok, active_fullscreen).answer
        IN
        /\ IF ~monitor_found THEN UNCHANGED hw
           ELSE IF otter_state = "disabled" THEN UNCHANGED hw
           ELSE IF otter_state = "hidden"
                THEN IF cfg.main_character /\ fs
                     THEN UNCHANGED hw
                     ELSE IF at_edge
                          THEN show_window      \* on_trigger -> _on_edge_trigger
                          ELSE UNCHANGED hw
           ELSE \* visible
                IF now - last_show_time < ShowGraceMs THEN UNCHANGED hw
                ELSE IF at_edge THEN UNCHANGED hw
                ELSE IF mouse_in_window(x, y) THEN UNCHANGED hw
                ELSE IF ~window_shown THEN UNCHANGED hw
                ELSE IF in_hotbox(x, y) THEN UNCHANGED hw
                ELSE hide_window                 \* on_leave -> _on_edge_leave
        /\ IF otter_state = "hidden"
           THEN Note("check_position", FALSE, monitor_found,
                     IF monitor_found THEN fs ELSE FALSE,
                     /\ monitor_found
                     /\ ~(cfg.main_character /\ fs)
                     /\ at_edge
                     /\ show_window_populates)
           ELSE IF hw' = hw
                THEN UNCHANGED last
                ELSE Note("check_position", HideInitiated, TRUE, FALSE, FALSE)
    /\ UNCHANGED << next_show_time, can_hide, menu_open, idle_hide,
                    redisplay_timers,  pointer,
                    now, cfg >>

\* one sampling tick (the sampling timer runs from EdgeDetector.start() in
\* OtterApp.run()), at any time
CheckPosition == check_position(BOOLEAN) /\ UNCHANGED sampled

\* a faulty _check_state_timer: when the suppression ends it shows the panel
\* instead of waiting for a new trigger
CheckStateTimerShows ==
    /\ UNCHANGED << dir_vars, cache_vars, fn_vars, idle_populate, sampled >>
    /\ IF otter_state = "disabled" /\ next_show_time # NoTime /\ now >= next_show_time
       THEN /\ otter_state' = "visible"
            /\ next_show_time' = NoTime
            /\ window_shown' = TRUE
            /\ last_show_time' = now
       ELSE UNCHANGED << otter_state, next_show_time, window_shown, last_show_time >>
    /\ UNCHANGED << delayed_hide_id, can_hide, menu_open,
                    idle_hide, redisplay_timers,
                    pointer, now, cfg >>
    /\ NoteEffect("check_state_timer", FALSE)

\* OtterApp._check_state_timer
CheckStateTimer ==
    /\ UNCHANGED << dir_vars, cache_vars, fn_vars, idle_populate, sampled >>
    /\ IF otter_state = "disabled" /\ next_show_time # NoTime /\ now >= next_show_time
       THEN /\ otter_state' = "hidden"
            /\ next_show_time' = NoTime
       ELSE UNCHANGED << otter_state, next_show_time >>
    /\ UNCHANGED << last_show_time, delayed_hide_id, can_hide, menu_open, window_shown,
                    idle_hide, redisplay_timers, 
                    pointer, now, cfg >>
    /\ NoteEffect("check_state_timer", FALSE)

\* ShiftMonitor._on_key_press -> OtterApp._on_shift_pressed; the handler is
\* connected only when hide_duration > 0 and the key press reaches the
\* panel only while it is shown and no menu holds the grab
OnShiftPressed ==
    /\ UNCHANGED << dir_vars, cache_vars, fn_vars, idle_populate, sampled >>
    /\ cfg.hide_duration > 0
    /\ window_shown
    /\ ~menu_open
    /\ IF otter_state = "visible"
       THEN /\ otter_state' = "disabled"
            /\ next_show_time' = now + cfg.hide_duration
            /\ window_shown' = FALSE
       ELSE UNCHANGED << otter_state, next_show_time, window_shown >>
    /\ UNCHANGED << last_show_time, delayed_hide_id, can_hide, menu_open,
                    idle_hide, redisplay_timers, 
                    pointer, now, cfg >>
    /\ NoteEffect("on_shift_pressed", FALSE)

\* OtterTrayIcon._on_left_click (not paused) -> OtterApp._on_tray_show
OnTrayShow ==
    /\ UNCHANGED << dir_vars, cache_vars, fn_vars, idle_populate, sampled >>
    /\ IF otter_state # "disabled" THEN show_window
       ELSE UNCHANGED hw
    /\ UNCHANGED << next_show_time, can_hide, menu_open, idle_hide,
                    redisplay_timers,  pointer,
                    now, cfg >>
    /\ NoteShow("on_tray_show")

\* a faulty on_window_clicked: the hide is queued although activate() raised
OnWindowClicked_hides_after_failure ==
    /\ UNCHANGED << dir_vars, cache_vars, fn_vars, idle_populate, sampled >>
    /\ window_shown
    /\ ~menu_open
    /\ UNCHANGED << hw, next_show_time, can_hide, menu_open,
                    redisplay_timers,  pointer,
                    now, cfg >>
    /\ \E found \in BOOLEAN, valid \in BOOLEAN, activate_ok \in BOOLEAN :
        /\ IF found /\ valid
           THEN idle_hide < MaxIdleHide /\ idle_hide' = idle_hide + 1
           ELSE UNCHANGED idle_hide
        /\ IF ~found
           THEN Note("on_window_clicked_stale", FALSE, TRUE, FALSE, FALSE)
           ELSE IF valid /\ ~activate_ok
                THEN Note("on_window_clicked_activate_failed", FALSE, TRUE, FALSE, FALSE)
                ELSE NoteEffect("on_window_clicked", FALSE)

\* EventHandler.on_window_clicked: "clicked" on a thumbnail button of the shown panel.
\* found / valid: get_window_by_xid and window_is_valid succeed; activate_ok: activate() does not raise.
\* The history names a click whose id matched no window "on_window_clicked_stale"
\* and a click whose activate() raised "on_window_clicked_activate_failed"
OnWindowClicked ==
    /\ UNCHANGED << dir_vars, cache_vars, fn_vars, idle_populate, sampled >>
    /\ window_shown
    /\ ~menu_open
    /\ UNCHANGED << hw, next_show_time, can_hide, menu_open,
                    redisplay_timers,  pointer,
                    now, cfg >>
    /\ \E found \in BOOLEAN, valid \in BOOLEAN, activate_ok \in BOOLEAN :
        /\ IF found /\ valid /\ activate_ok
           THEN idle_hide < MaxIdleHide /\ idle_hide' = idle_hide + 1   \* GLib.idle_add(hide_window)
           ELSE UNCHANGED idle_hide
        /\ IF ~found
           THEN Note("on_window_clicked_stale", FALSE, TRUE, FALSE, FALSE)
           ELSE IF valid /\ ~activate_ok
                THEN Note("on_window_clicked_activate_failed", FALSE, TRUE, FALSE, FALSE)
                ELSE NoteEffect("on_window_clicked", FALSE)

\* the idle callback queued by on_window_clicked: OtterApp.hide_window
IdleHideWindow ==
    /\ UNCHANGED << dir_vars, cache_vars, fn_vars, idle_populate, sampled >>
    /\ idle_hide > 0
    /\ idle_hide' = idle_hide - 1
    /\ hide_window
    /\ UNCHANGED << next_show_time, can_hide, menu_open,
                    redisplay_timers,  pointer,
                    now, cfg >>
    /\ NoteEffect("idle_hide_window", HideInitiated)

\* OtterApp._on_window_changed: "window-opened" / "window-closed" of the Wnck
\* screen (connected in WindowManager._init_wnck and recreate_wnck_screen)
OnWindowChanged ==
    /\ UNCHANGED << dir_vars, cache_vars, fn_vars, sampled >>
    /\ IF otter_state = "visible"
       THEN /\ idle_populate < MaxIdlePopulate
            /\ idle_populate' = idle_populate + 1   \* GLib.idle_add(_populate_windows)
       ELSE UNCHANGED idle_populate
    /\ UNCHANGED << hw, next_show_time, can_hide, menu_open, idle_hide,
                    redisplay_timers, pointer, now, cfg >>
    /\ NoteEffect("on_window_changed", FALSE)

\* the idle callback queued by _on_window_changed: OtterApp._populate_windows,
\* which calls get_user_windows whatever the state is by then
IdlePopulateWindows ==
    /\ UNCHANGED << dir_vars, cache_vars, fn_vars, sampled >>
    /\ idle_populate > 0
    /\ idle_populate' = idle_populate - 1
    /\ UNCHANGED << hw, next_show_time, can_hide, menu_open, idle_hide,
                    redisplay_timers, pointer, now, cfg >>
    /\ Note("populate_windows", FALSE, TRUE, FALSE, TRUE)

\* the timer armed by hide_window fires: OtterApp._do_hide
DelayedHideFires ==
    /\ UNCHANGED << dir_vars, cache_vars, fn_vars, idle_populate, sampled >>
    /\ delayed_hide_id # NoTime
    /\ now >= delayed_hide_id
    /\ do_hide
    /\ UNCHANGED << next_show_time, can_hide, menu_open, idle_hide,
                    redisplay_timers,  pointer,
                    now, cfg >>
    /\ NoteEffect("delayed_do_hide", FALSE)

\* EventHandler.on_button_press with button 3 -> OtterApp.show_context_menu
\* -> ContextMenu.show.  found: get_window_by_xid returns a window; built: the
\* menu is built and popped up.  The history names a request whose id matched
\* no window "show_context_menu_stale"
OnContextMenu ==
    /\ UNCHANGED << dir_vars, cache_vars, fn_vars, idle_populate, sampled >>
    /\ window_shown
    /\ ~menu_open
    /\ mouse_in_window(pointer[1], pointer[2])
    /\ can_hide' = FALSE
    /\ UNCHANGED << hw, next_show_time, idle_hide,
                    redisplay_timers,  pointer,
                    now, cfg >>
    /\ \E found \in BOOLEAN, built \in BOOLEAN :
        /\ menu_open' = (found /\ built)
        /\ IF found
           THEN NoteEffect("show_context_menu", FALSE)
           ELSE Note("show_context_menu_stale", FALSE, TRUE, FALSE, FALSE)

\* the "deactivate" signal of the popped-up menu -> OtterApp._on_menu_closed
OnMenuClosed ==
    /\ UNCHANGED << dir_vars, cache_vars, fn_vars, idle_populate, sampled >>
    /\ menu_open
    /\ menu_open' = FALSE
    /\ can_hide' = TRUE
    /\ UNCHANGED << hw, next_show_time, idle_hide,
                    redisplay_timers,  pointer,
                    now, cfg >>
    /\ NoteEffect("on_menu_closed", FALSE)

\* EventHandler.on_button_press with button 2 -> EventHandler.on_middle_click.
\* resolved: the id resolves, its workspace and the screen are there;
\* same_ws: the window is on the active workspace; activate_ok: activate() does not raise
OnMiddleClick ==
    /\ UNCHANGED << dir_vars, cache_vars, fn_vars, idle_populate, sampled >>
    /\ window_shown
    /\ ~menu_open
    /\ mouse_in_window(pointer[1], pointer[2])
    /\ \E resolved \in BOOLEAN, same_ws \in BOOLEAN, activate_ok \in BOOLEAN :
        IF ~resolved \/ ~activate_ok
        THEN UNCHANGED << hw, redisplay_timers >>
        ELSE IF same_ws
             THEN hide_window /\ UNCHANGED redisplay_timers
             ELSE /\ Cardinality(redisplay_timers) < MaxRedisplay
                  /\ redisplay_timers' = redisplay_timers \cup {now + RedisplayDelayMs}
                  /\ UNCHANGED hw
    /\ UNCHANGED << next_show_time, can_hide, menu_open, idle_hide,
                     pointer, now, cfg >>
    /\ NoteEffect("on_middle_click", HideInitiated)

\* the timer armed by on_middle_click fires: EventHandler._redisplay_after_workspace_switch.
\* input.py has no module-level "import time": the assignment of last_show_time on
\* line 433 raises NameError after otter_state was set, and the handler's except
\* clause swallows it, so last_show_time keeps its value
RedisplayAfterWorkspaceSwitch ==
    /\ UNCHANGED << dir_vars, cache_vars, fn_vars, idle_populate, sampled >>
    /\ \E due \in redisplay_timers :
        /\ now >= due
        /\ redisplay_timers' = redisplay_timers \ {due}
    /\ window_shown' = TRUE                          \* window.show_all()
    /\ IF otter_state # "visible"
       THEN otter_state' = "visible"
       ELSE UNCHANGED otter_state
    /\ UNCHANGED << last_show_time, delayed_hide_id >>
    /\ UNCHANGED << next_show_time, can_hide, menu_open, idle_hide,
                     pointer, now, cfg >>
    /\ NoteEffect("redisplay_after_workspace_switch", FALSE)

\* EventHandler.on_enter_notify: the pointer is over the shown panel
OnEnterNotify ==
    /\ UNCHANGED << dir_vars, cache_vars, fn_vars, idle_populate, sampled >>
    /\ window_shown
    /\ mouse_in_window(pointer[1], pointer[2])
    /\ delayed_hide_id' = NoTime
    /\ UNCHANGED << otter_state, last_show_time, window_shown, next_show_time, can_hide,
                    menu_open, idle_hide, redisplay_timers,  pointer, now, cfg >>
    /\ NoteEffect("on_enter_notify", FALSE)

\* the user moves the pointer; entering the shown panel delivers enter-notify-event
\* (EventHandler.on_enter_notify) before anything else happens
MovePointer ==
    /\ UNCHANGED << dir_vars, cache_vars, fn_vars, idle_populate, sampled >>
    /\ \E p \in PointerPoints(cfg.edge) :
        /\ p # pointer
        /\ pointer' = p
        /\ IF ~mouse_in_window(pointer[1], pointer[2]) /\ mouse_in_window(p[1], p[2])
           THEN delayed_hide_id' = NoTime
           ELSE UNCHANGED delayed_hide_id
    /\ UNCHANGED << otter_state, last_show_time, window_shown, next_show_time, can_hide,
                    menu_open, idle_hide, redisplay_timers,  now, cfg >>
    /\ NoteEffect("env", FALSE)

\* time passes: one sampling interval
AdvanceTime ==
    /\ UNCHANGED << dir_vars, cache_vars, fn_vars, idle_populate, sampled >>
    /\ now + MOUSE_POLL_INTERVAL <= StartTime + DisplayHorizon
    /\ now' = now + MOUSE_POLL_INTERVAL
    /\ UNCHANGED << hw, next_show_time, can_hide, menu_open, idle_hide,
                    redisplay_timers,  pointer, cfg >>
    /\ NoteEffect("env", FALSE)

(***************************************************************************)
(* The window directory: windows.py (WindowManager)                        *)
(***************************************************************************)
\* the grace period and the recreation interval in milliseconds
GraceMs == WNCK_GRACE_PERIOD * 1000

IntervalMs == WNCK_RECREATION_INTERVAL * 1000

Xids == 1 .. MaxXid

\* the window states of the X server: "ok", a user window; "filtered", a window
\* the enumeration skips (not of type NORMAL, a system application, ignored,
\* the panel itself, a blank title)
WindowStates == {"closed", "ok", "filtered"}

\* the history of a directory call that did nothing yet
NoCall ==
    [ op |-> "none",            \* the operation
      force |-> FALSE,          \* get_user_windows: its force_update argument
      age0 |-> 0,               \* time since wnck_last_recreation when it was called
      count0 |-> 0,             \* wnck_call_count when it was called
      handle0 |-> TRUE,         \* screen_wnck was not None when it was called
      early |-> FALSE,          \* it returned at lines 227-232, before should_recreate_wnck
      sched |-> 0,              \* recreations started by should_recreate_wnck (line 235)
      refreshes |-> 0,          \* force_update() calls issued on the handle
      refresh_failed |-> FALSE, \* the first force_update() raised
      fail |-> 0,               \* recreations started after that failure (line 247)
      recreation_ok |-> FALSE,  \* that recreation returned True
      retries |-> 0,            \* force_update() calls issued after that recreation (line 249)
      retry_ok |-> FALSE,       \* the retry did not raise
      raised |-> FALSE,         \* an exception left the call
      arg |-> NoXid,            \* get_window_by_xid: its argument
      used |-> NoWindow,        \* the Wnck window a method was called on
      resolved |-> FALSE,       \* get_window_by_xid returned it to this callback
      outcome |-> "none",       \* what that method call did
      text |-> << >>,           \* on_window_clicked: str() of the exception of activate()
      after |-> << >>,          \* get_user_windows: the text of the activate() failure
                                \* handled right before this call, if any
      steps |-> << >>,          \* get_user_windows: the statements of
                                \* recreate_wnck_screen executed so far, in order
      result |-> << >> ]        \* the value returned

\* WindowManager.window_is_valid of the Wnck object of window x
window_is_valid(x) == xserver[x] # "closed"

\* WindowManager.get_window_by_xid: the window it returns (NoXid models None)
\* and the number of calls it makes on the handle.  unreadable: the windows
\* whose get_xid() raises during this lookup
get_window_by_xid(xid, unreadable) ==
    IF xid = NoXid \/ ~screen_wnck
    THEN [window |-> NoXid, handle_calls |-> 0]
    ELSE LET found == { x \in Xids : window_is_valid(x) /\ x \notin unreadable /\ x = xid }
         IN [ window |-> IF found = {} THEN NoXid ELSE CHOOSE x \in found : TRUE,
              handle_calls |-> 1 ]

\* a faulty should_recreate_wnck: the call count is not looked at
should_recreate_wnck_by_age(t) ==
    t - wnck_last_recreation > IntervalMs

\* a faulty should_recreate_wnck: both tests include the threshold
should_recreate_wnck_at_threshold(t) ==
    \/ t - wnck_last_recreation >= IntervalMs
    \/ wnck_call_count >= WNCK_MAX_CALLS

\* WindowManager.should_recreate_wnck at time t
should_recreate_wnck(t) ==
    \/ t - wnck_last_recreation > IntervalMs
    \/ wnck_call_count > WNCK_MAX_CALLS


\* a faulty guard: a handle that is None is not looked at
returns_early_only_recreating == wnck_recreating

\* get_user_windows, lines 227-232: the call returns [] before it touches the handle
returns_early == ~screen_wnck \/ wnck_recreating

\* a faulty refresh test: the grace period is not honoured
refresh_due_always(force_update, time_since_recreation) ==
    force_update \/ time_since_recreation >= 0

\* get_user_windows, line 242: force_update() is due
refresh_due(force_update, time_since_recreation) ==
    force_update \/ time_since_recreation >= GraceMs

\* a faulty record: the Wnck window is stored in it
WindowRecordWithHandle(x, unreadable) ==
    [ window |-> x, xid |-> IF x \in unreadable THEN NoXid ELSE x, src |-> x ]

\* get_user_windows, lines 300-331: the record of window x; unreadable: the
\* windows whose get_xid() raises during this enumeration (xid = None then).
\* window is the 'window' entry of the record (a Wnck window is named by its
\* id); src, the window the record was made from, is history
WindowRecord(x, unreadable) ==
    [ window |-> NoWindow, xid |-> IF x \in unreadable THEN NoXid ELSE x, src |-> x ]

\* get_user_windows, lines 256-335: the enumeration of the windows from x on
RECURSIVE Enumerate(_, _)
Enumerate(x, unreadable) ==
    IF x > MaxXid THEN << >>
    ELSE (IF xserver[x] = "ok" THEN << WindowRecord(x, unreadable) >> ELSE << >>)
         \o Enumerate(x + 1, unreadable)

\* the user windows: the enumeration makes a record of each
UserWindows == { x \in Xids : xserver[x] = "ok" }

\* get_user_windows returns: the call is over
Finish(c, result) ==
    /\ dir_pc' = "idle"
    /\ dir_last' = [c EXCEPT !.result = result]

\* a faulty listing: an exception of get_windows() leaves the call
ListWindowsRaises(c, handle, listing_ok, unreadable) ==
    IF handle /\ listing_ok
    THEN Finish(c, Enumerate(1, unreadable))
    ELSE Finish([c EXCEPT !.raised = TRUE], << >>)

\* get_user_windows, lines 255-339: get_windows() and the enumeration.  []
\* is returned when get_windows() raises (it does on a handle that is None)
\* or returns nothing; listing_ok: it returns the windows
ListWindows(c, handle, listing_ok, unreadable) ==
    Finish(c, IF handle /\ listing_ok THEN Enumerate(1, unreadable) ELSE << >>)

\* a faulty retry: when the retry raises, the exception leaves the call
RetryRefreshRaises(c, retry_ok, unreadable) ==
    /\ wnck_recreating' = FALSE
    /\ Finish([c EXCEPT !.recreation_ok = TRUE, !.retries = 1,
                        !.refreshes = @ + 1, !.retry_ok = retry_ok,
                        !.raised = ~retry_ok,
                        !.steps = @ \o << "recreating_false" >>],
              IF retry_ok THEN Enumerate(1, unreadable) ELSE << >>)

\* get_user_windows, lines 248-251 and 256-339: recreate_wnck_screen returned
\* True; force_update() is retried once and the windows are enumerated, or []
\* is returned when the retry raises
RetryRefresh(c, retry_ok, unreadable) ==
    /\ wnck_recreating' = FALSE
    /\ Finish([c EXCEPT !.recreation_ok = TRUE, !.retries = 1,
                        !.refreshes = @ + 1, !.retry_ok = retry_ok,
                        !.steps = @ \o << "recreating_false" >>],
              IF retry_ok THEN Enumerate(1, unreadable) ELSE << >>)

\* get_user_windows, lines 237-339, entered at time t with the handle present
\* or not: count the call, refresh when due, enumerate.  A force_update() that
\* raises starts recreate_wnck_screen (line 247), which sets wnck_recreating
\* and sleeps
Body(c, t, handle) ==
    /\ wnck_call_count' = wnck_call_count + 1
    /\ IF refresh_due(c.force, t - wnck_last_recreation)
       THEN \E ok \in (IF handle THEN BOOLEAN ELSE {FALSE}) :
              IF ok
              THEN /\ wnck_recreating' = FALSE
                   /\ UNCHANGED dir_recreations
                   /\ \E unreadable \in SUBSET UserWindows, listing_ok \in BOOLEAN :
                        ListWindows([c EXCEPT !.refreshes = 1], handle, listing_ok,
                                    unreadable)
              ELSE /\ wnck_recreating' = TRUE
                   /\ dir_recreations' = dir_recreations + 1
                   /\ dir_pc' = "fail_settle_old"
                   /\ dir_last' = [c EXCEPT !.refreshes = 1, !.refresh_failed = TRUE,
                                            !.fail = 1,
                                            !.steps = @ \o << "recreating_true" >>]
       ELSE /\ wnck_recreating' = FALSE
            /\ UNCHANGED dir_recreations
            /\ \E unreadable \in SUBSET UserWindows, listing_ok \in BOOLEAN :
                 ListWindows(c, handle, listing_ok, unreadable)

\* every variable of the display state machine but the clock
display_rest == << otter_state, next_show_time, last_show_time, delayed_hide_id,
                   can_hide, menu_open, window_shown, idle_hide, idle_populate,
                   redisplay_timers, pointer, sampled, cfg, last >>

\* the model stops calling get_user_windows when MaxDirCalls calls were counted
\* on a fresh handle, or past WNCK_MAX_CALLS on a long-lived one
CallBudget ==
    \/ wnck_call_count < MaxDirCalls
    \/ wnck_call_count >= WNCK_MAX_CALLS /\ wnck_call_count < WNCK_MAX_CALLS + MaxDirCalls

\* WindowManager.get_user_windows up to its return or, when it recreates the
\* handle, up to the first sleep of recreate_wnck_screen (line 194)
GetUserWindows ==
    /\ dir_pc = "idle"
    /\ CallBudget
    /\ dir_recreations < MaxRecreations
    /\ \E force_update \in BOOLEAN :
        LET c == [NoCall EXCEPT !.op = "get_user_windows", !.force = force_update,
                                !.age0 = now - wnck_last_recreation,
                                !.count0 = wnck_call_count,
                                !.handle0 = screen_wnck,
                                !.after = IF dir_last.op = "on_window_clicked"
                                          THEN dir_last.text ELSE << >>]
        IN IF returns_early
           THEN /\ Finish([c EXCEPT !.early = TRUE], << >>)
                /\ UNCHANGED << wnck_call_count, wnck_recreating, dir_recreations >>
           ELSE IF should_recreate_wnck(now)
                THEN /\ wnck_recreating' = TRUE
                     /\ dir_recreations' = dir_recreations + 1
                     /\ dir_pc' = "sched_settle_old"
                     /\ dir_last' = [c EXCEPT !.sched = 1,
                                              !.steps = << "recreating_true" >>]
                     /\ UNCHANGED wnck_call_count
                ELSE Body(c, now, screen_wnck)
    /\ UNCHANGED << now, screen_wnck, wnck_last_recreation, xserver, held_windows, display_rest, cache_vars, fn_vars >>

\* a recreation that resets wnck_last_recreation and wnck_call_count before it
\* has the new handle
RecreationSteps_reset_first(outcome) ==
    CASE outcome = "ok" -> << "reset", "handle", "subscribed" >>
      [] outcome = "none" -> << "reset", "handle" >>
      [] outcome = "get_default_raises" -> << "recreating_false" >>
      [] outcome = "connect_raises" -> << "handle", "recreating_false" >>

\* recreate_wnck_screen, lines 196-203 and 211-213: the statements executed
\* between the two sleeps, by what Wnck.Screen.get_default() and connect() do.
\* "handle": screen_wnck is assigned; "subscribed": window-opened and
\* window-closed are connected on it (a handle that is None is not connected
\* to); "reset": wnck_last_recreation and wnck_call_count are assigned;
\* "recreating_false": the except clause clears the flag
RecreationSteps(outcome) ==
    CASE outcome = "ok" -> << "handle", "subscribed", "reset" >>
      [] outcome = "none" -> << "handle", "reset" >>
      [] outcome = "get_default_raises" -> << "recreating_false" >>
      [] outcome = "connect_raises" -> << "handle", "recreating_false" >>

\* recreate_wnck_screen, lines 194-203 and 211-214: the first sleep is over;
\* Wnck.Screen.get_default() yields a handle ("ok") or None ("none") or raises,
\* or connect() raises on the new handle.  When it raises the recreation
\* returns False and get_user_windows goes on: with its body (after line 235)
\* or by returning [] (line 253)
RecreateSettleOld ==
    /\ dir_pc \in {"sched_settle_old", "fail_settle_old"}
    /\ now' = now + SettleMs
    /\ \E outcome \in {"ok", "none", "get_default_raises", "connect_raises"} :
        IF outcome \in {"ok", "none"}
        THEN /\ screen_wnck' = (outcome = "ok")
             /\ wnck_last_recreation' = now'
             /\ wnck_call_count' = 0
             /\ dir_pc' = IF dir_pc = "sched_settle_old"
                          THEN "sched_settle_new" ELSE "fail_settle_new"
             /\ dir_last' = [dir_last EXCEPT !.steps = @ \o RecreationSteps(outcome)]
             /\ UNCHANGED << wnck_recreating, dir_recreations >>
        ELSE /\ screen_wnck' = IF outcome = "connect_raises" THEN TRUE ELSE screen_wnck
             /\ UNCHANGED wnck_last_recreation
             /\ LET c == [dir_last EXCEPT !.steps = @ \o RecreationSteps(outcome)]
                IN IF dir_pc = "sched_settle_old"
                   THEN Body(c, now', screen_wnck')
                   ELSE /\ wnck_recreating' = FALSE
                        /\ Finish(c, << >>)
                        /\ UNCHANGED << wnck_call_count, dir_recreations >>
    /\ UNCHANGED << xserver, held_windows, display_rest, cache_vars, fn_vars >>

\* recreate_wnck_screen, lines 205-209: the second sleep is over, the flag is
\* cleared and True returned; get_user_windows goes on with its body (after
\* line 235) or with the retry (line 249), which raises on a handle that is None
RecreateSettleNew ==
    /\ dir_pc \in {"sched_settle_new", "fail_settle_new"}
    /\ now' = now + SettleMs
    /\ IF dir_pc = "sched_settle_new"
       THEN Body([dir_last EXCEPT !.steps = @ \o << "recreating_false" >>], now',
                 screen_wnck)
       ELSE /\ \E retry_ok \in (IF screen_wnck THEN BOOLEAN ELSE {FALSE}),
                  unreadable \in SUBSET UserWindows :
                RetryRefresh(dir_last, retry_ok, unreadable)
            /\ UNCHANGED << wnck_call_count, dir_recreations >>
    /\ UNCHANGED << screen_wnck, wnck_last_recreation, xserver, held_windows, display_rest, cache_vars, fn_vars >>

\* a caller resolves an id: WindowManager.get_window_by_xid
GetWindowByXid ==
    /\ dir_pc = "idle"
    /\ \E xid \in Xids \cup {NoXid}, unreadable \in SUBSET Xids :
        LET w == get_window_by_xid(xid, unreadable).window
        IN dir_last' = [NoCall EXCEPT !.op = "get_window_by_xid", !.arg = xid,
                            !.result = IF w = NoXid THEN << >>
                                       ELSE << [xid |-> w, src |-> w] >>]
    /\ UNCHANGED << now, screen_wnck, wnck_recreating, wnck_last_recreation,
                    wnck_call_count, xserver, dir_pc, dir_recreations, held_windows, display_rest, cache_vars, fn_vars >>

\* "term in error_str" of two strings given as sequences of character codes
contains(error_str, term) ==
    \E i \in 0 .. Len(error_str) - Len(term) :
        SubSeq(error_str, i + 1, i + Len(term)) = term

\* the corruption signatures of otter.py (on_window_clicked, line 2081):
\* "Wnck", "ClassGroup", "g_hash_table", "unclassed"
CorruptionTerms ==
    { <<87, 110, 99, 107>>,
      <<67, 108, 97, 115, 115, 71, 114, 111, 117, 112>>,
      <<103, 95, 104, 97, 115, 104, 95, 116, 97, 98, 108, 101>>,
      <<117, 110, 99, 108, 97, 115, 115, 101, 100>> }

\* the test otter.py makes on the text of a failed activate()
is_wnck_corruption(error_str) ==
    \E term \in CorruptionTerms : contains(error_str, term)

\* the texts activate() fails with in the model: "WnckClassGroup corruption
\* detected" and "Connection timeout"
ActivateErrors ==
    { <<87, 110, 99, 107, 67, 108, 97, 115, 115, 71, 114, 111, 117, 112, 32, 99, 111, 114, 114, 117, 112, 116, 105, 111, 110, 32, 100, 101, 116, 101, 99, 116, 101, 100>>,
      <<67, 111, 110, 110, 101, 99, 116, 105, 111, 110, 32, 116, 105, 109, 101, 111, 117, 116>> }

\* EventHandler.on_window_clicked when activate() raises (input.py, lines
\* 258-278): the window is found and valid, the exception is logged and the
\* handler returns; no field of the WindowManager is written
OnWindowClickedActivateRaises ==
    /\ dir_pc = "idle"
    /\ \E xid \in Xids, error_str \in ActivateErrors :
        /\ get_window_by_xid(xid, {}).window # NoXid
        /\ window_is_valid(xid)
        /\ dir_last' = [NoCall EXCEPT !.op = "on_window_clicked", !.arg = xid,
                                      !.used = xid, !.resolved = TRUE,
                                      !.outcome = "activate_raised",
                                      !.text = error_str]
    /\ UNCHANGED << now, screen_wnck, wnck_recreating, wnck_last_recreation,
                    wnck_call_count, xserver, dir_pc, dir_recreations, held_windows,
                    display_rest, cache_vars, fn_vars >>

\* the X server: a window opens, closes or changes its state
XServerChanges ==
    /\ \E x \in Xids, st \in WindowStates :
        /\ st # xserver[x]
        /\ xserver' = [xserver EXCEPT ![x] = st]
    /\ dir_last' = IF dir_pc = "idle" THEN [NoCall EXCEPT !.op = "env"] ELSE dir_last
    /\ UNCHANGED << now, screen_wnck, wnck_recreating, wnck_last_recreation,
                    wnck_call_count, dir_pc, dir_recreations, held_windows, display_rest, cache_vars, fn_vars >>

\* ContextMenu._on_drag_app(xid): the window is resolved, activated, and a
\* 100 ms timer is armed whose callback calls keyboard_move() on that window
OnDragApp ==
    /\ dir_pc = "idle"
    /\ Cardinality(held_windows) < MaxHeld
    /\ \E xid \in Xids, unreadable \in SUBSET Xids :
        LET window == get_window_by_xid(xid, unreadable).window
        IN IF window = NoWindow
           THEN /\ dir_last' = [NoCall EXCEPT !.op = "on_drag_app", !.arg = xid]
                /\ UNCHANGED held_windows
           ELSE /\ dir_last' = [NoCall EXCEPT !.op = "on_drag_app", !.arg = xid,
                                              !.used = window, !.resolved = TRUE,
                                              !.outcome = "activated"]
                /\ held_windows' = held_windows \cup {window}
    /\ UNCHANGED << now, screen_wnck, wnck_recreating, wnck_last_recreation,
                    wnck_call_count, xserver, dir_pc, dir_recreations, display_rest,
                    cache_vars, fn_vars >>

\* the timer of _on_drag_app fires (ui.py, line 709): keyboard_move() is called
\* on the window the timer holds.  On a window that was closed meanwhile the
\* call is on a stale object: it does nothing, raises or ends the process
KeyboardMoveFires ==
    /\ dir_pc = "idle"
    /\ \E window \in held_windows :
        /\ held_windows' = held_windows \ {window}
        /\ \E outcome \in (IF window_is_valid(window) THEN {"moved"}
                            ELSE {"nothing", "raised", "crashed"}) :
             dir_last' = [NoCall EXCEPT !.op = "keyboard_move", !.used = window,
                                        !.resolved = FALSE, !.outcome = outcome]
    /\ UNCHANGED << now, screen_wnck, wnck_recreating, wnck_last_recreation,
                    wnck_call_count, xserver, dir_pc, dir_recreations, display_rest,
                    cache_vars, fn_vars >>

\* the ages of the handle at which the code's time tests change their answer
AgePoints == {GraceMs - 1, GraceMs, IntervalMs, IntervalMs + 1}

\* time passes between two calls: up to the next of these ages of the handle
DirAdvance ==
    /\ dir_pc = "idle"
    /\ \E a \in AgePoints :
        /\ wnck_last_recreation + a > now
        /\ now' = wnck_last_recreation + a
    /\ dir_last' = [NoCall EXCEPT !.op = "env"]
    /\ UNCHANGED << screen_wnck, wnck_recreating, wnck_last_recreation,
                    wnck_call_count, xserver, dir_pc, dir_recreations, held_windows, display_rest, cache_vars, fn_vars >>

\* WindowManager.__init__: the directory as constructed at time t (the handle
\* is None and wnck_last_recreation 0 when _initialize_wnck failed)
InitDirectory(t, init_ok) ==
    /\ screen_wnck = init_ok
    /\ wnck_recreating = FALSE
    /\ wnck_last_recreation = IF init_ok THEN t ELSE 0
    /\ wnck_call_count = 0
    /\ xserver = [x \in Xids |-> "closed"]
    /\ dir_pc = "idle"
    /\ dir_last = NoCall
    /\ dir_recreations = 0
    /\ held_windows = {}

(***************************************************************************)
(* The thumbnail cache: screenshots.py (ScreenshotManager)                 *)
(***************************************************************************)
\* the elements of a sequence
Range(s) == { s[i] : i \in 1 .. Len(s) }

\* d[k] = v on a dict whose keys, in insertion order, are d: a new key goes
\* to the end, a key already there keeps its place
DictSet(d, k) == IF k \in Range(d) THEN d ELSE Append(d, k)

\* the ids of the records get_user_windows returns for the windows lo .. hi
Snapshot(lo, hi) == [ i \in 1 .. (IF hi >= lo THEN hi - lo + 1 ELSE 0) |-> lo + i - 1 ]

\* ScreenshotManager.get_screenshot of window xid is not None: the window was
\* captured now (and the capture stored in last_valid_screenshots), or an
\* earlier capture of it is in last_valid (the value of last_valid_screenshots)
has_screenshot(xid, captured, last_valid) == xid \in captured \/ xid \in last_valid

\* the loops of update_cache (lines 190-208) and preprocess_startup_thumbnails
\* (lines 307-329): screenshot_cache[xid] = screenshot for every window of the
\* snapshot that has a screenshot, in the order of the snapshot (a snapshot
\* names no id twice: the keys that are new go to the end in that order)
StoreAll(cache, snapshot, captured, last_valid) ==
    LET keys == Range(cache)
        New(xid) == has_screenshot(xid, captured, last_valid) /\ xid \notin keys
    IN cache \o SelectSeq(snapshot, New)

\* update_cache, lines 165-175: the entries whose id is not in the snapshot go
prune(keys, snapshot) ==
    LET existing_xids == Range(snapshot)
        Existing(k) == k \in existing_xids
    IN SelectSeq(keys, Existing)

\* update_cache, lines 178-187: the keys that stay when the size limit is enforced
evict(keys) ==
    IF Len(keys) > MAX_CACHE_SIZE
    THEN SubSeq(keys, Len(keys) - MAX_CACHE_SIZE + 1, Len(keys))
    ELSE keys

\* a faulty update_cache: the entries of windows that are gone are left in
\* last_valid_screenshots
update_cache_keeps_last_valid(cache, last_valid, snapshot, captured) ==
    LET c1 == prune(cache, snapshot)
        c2 == evict(c1)
        lv == last_valid \cup captured
    IN [ cache |-> StoreAll(c2, snapshot, captured, lv), last_valid |-> lv ]

\* ScreenshotManager.update_cache(current_windows): the two dicts afterwards.
\* captured: the windows of the snapshot that capture_window captures
update_cache(cache, last_valid, snapshot, captured) ==
    LET c1 == prune(cache, snapshot)
        c2 == evict(c1)
        lv == (last_valid \ (Range(cache) \ Range(c2))) \cup captured
    IN [ cache |-> StoreAll(c2, snapshot, captured, lv), last_valid |-> lv ]

\* the windows that are not captured in one pass over the snapshot (minimized,
\* not viewable, a failed capture): none, the oldest, the newest or all
CaptureFailures(lo, hi) ==
    {{}} \cup (IF hi >= lo THEN {{lo}, {hi}, lo .. hi} ELSE {})

\* ScreenshotManager.preprocess_startup_thumbnails, called by OtterApp.run()
\* before the main loop.  listed: get_user_windows(force_update=True) returned
\* the windows and not []
PreprocessStartupThumbnails ==
    /\ cache_pc = "startup"
    /\ \E listed \in BOOLEAN, failed \in CaptureFailures(win_lo, win_hi) :
        LET snapshot == IF listed THEN Snapshot(win_lo, win_hi) ELSE << >>
            captured == Range(snapshot) \ failed
        IN /\ screenshot_cache' = StoreAll(screenshot_cache, snapshot, captured,
                                           last_valid_screenshots \cup captured)
           /\ last_valid_screenshots' = last_valid_screenshots \cup captured
    /\ cache_pc' = "running"
    /\ UNCHANGED << win_lo, win_hi, cache_updates, startup, display_vars, dir_vars,
                    fn_vars >>

\* OtterApp._update_screenshot_cache, the 5 s timer: get_user_windows() and
\* update_cache while the panel is not visible.  fn_call records the
\* arguments of the update_cache call, the dicts it found and the windows
\* that were open
UpdateScreenshotCache ==
    /\ cache_pc = "running"
    /\ cache_updates < MaxUpdates
    /\ cache_updates' = cache_updates + 1
    /\ otter_state # "visible"
    /\ \E listed \in BOOLEAN, failed \in CaptureFailures(win_lo, win_hi) :
        LET snapshot == IF listed THEN Snapshot(win_lo, win_hi) ELSE << >>
            after == update_cache(screenshot_cache, last_valid_screenshots, snapshot,
                                  Range(snapshot) \ failed)
        IN /\ screenshot_cache' = after.cache
           /\ last_valid_screenshots' = after.last_valid
           /\ fn_call' = [op |-> "update_cache", cache |-> screenshot_cache,
                          last_valid |-> last_valid_screenshots,
                          current_windows |-> snapshot,
                          open |-> Snapshot(win_lo, win_hi)]
    /\ UNCHANGED << win_lo, win_hi, cache_pc, startup, display_vars, dir_vars, fn_ret >>

\* OtterApp.cleanup (main.py, lines 447-450), called by _on_tray_quit before
\* Gtk.main_quit(): both dicts are cleared and the main loop ends
Cleanup ==
    /\ cache_pc = "running"
    /\ cache_pc' = "quit"
    /\ screenshot_cache' = << >>
    /\ last_valid_screenshots' = {}
    /\ UNCHANGED << win_lo, win_hi, cache_updates, startup, display_vars, dir_vars,
                    fn_vars >>

\* the ids the newest window of the cache model has
NewestIds == (0 .. FewWindows) \cup ((MAX_CACHE_SIZE - 1) .. MaxWindows)

\* a window opens (it gets the next id) or the oldest window closes
WindowsChange ==
    /\ \/ win_hi + 1 \in NewestIds /\ win_hi' = win_hi + 1 /\ UNCHANGED win_lo
       \/ win_lo <= win_hi /\ win_lo <= MaxClosed /\ win_lo' = win_lo + 1 /\ UNCHANGED win_hi
    /\ UNCHANGED << screenshot_cache, last_valid_screenshots, cache_pc, cache_updates,
                    startup, display_vars, dir_vars, fn_vars >>

\* OtterApp.__init__ has returned and run() was not called yet: the flag and
\* the splash as ScreenshotManager.__init__ sets them, the tray not paused
\* (OtterTrayIcon.__init__), monitor_id None (EdgeDetector.__init__)
NoStartup ==
    [ pc |-> "init",         \* "init", "loop", "events", "work", "done", "main"
      snapshot |-> << >>,    \* current_windows of preprocess_startup_thumbnails
      i |-> 0,               \* the windows of the snapshot the loop is done with
      reports |-> << >>,     \* the update_startup_progress calls made: <<current, total>>
      visited |-> << >>,     \* the windows the loop body ran for
      active |-> FALSE,      \* startup_preprocessing_active
      splash |-> FALSE,      \* startup_splash is not None
      paused |-> FALSE,      \* OtterTrayIcon.paused
      monitor_id |-> FALSE ] \* EdgeDetector.monitor_id is not None: the sampling timer runs

\* preprocess_startup_thumbnails, lines 292-305 (and 331-343 when
\* create_startup_splash raises): the flag is set, the splash is made and
\* get_user_windows(force_update=True) gives the snapshot
PreprocessBegin ==
    /\ startup.pc = "init"
    /\ \E splash_ok \in BOOLEAN, listed \in BOOLEAN :
        IF splash_ok
        THEN startup' = [startup EXCEPT !.pc = "loop", !.active = TRUE, !.splash = TRUE,
                             !.snapshot = IF listed THEN Snapshot(win_lo, win_hi)
                                          ELSE << >>]
        ELSE startup' = [startup EXCEPT !.pc = "done", !.active = FALSE,
                                        !.splash = FALSE]
    /\ cache_pc' = IF startup'.pc = "done" THEN "running" ELSE cache_pc
    /\ UNCHANGED << screenshot_cache, last_valid_screenshots, win_lo, win_hi,
                    cache_updates, display_vars, dir_vars, fn_vars >>

\* the loop of preprocess_startup_thumbnails, lines 307-312: the flag is
\* tested and update_startup_progress(i + 1, total) is called, which sets the
\* progress bar and then runs the main loop while events are pending (line 283)
PreprocessReportProgress ==
    /\ startup.pc = "loop"
    /\ startup.i < Len(startup.snapshot)
    /\ startup.active
    /\ startup' = [startup EXCEPT
                     !.pc = IF startup.splash THEN "events" ELSE "work",
                     !.reports = Append(@, << startup.i + 1, Len(startup.snapshot) >>)]
    /\ UNCHANGED << screenshot_cache, last_valid_screenshots, win_lo, win_hi, cache_pc,
                    cache_updates, display_vars, dir_vars, fn_vars >>

\* OtterTrayIcon._on_toggle_pause, "activate" of the Pause / Resume item of the
\* tray menu: it is dispatched by a main loop iteration, those of
\* update_startup_progress included (the tray icon is made in OtterApp.__init__)
OnTogglePause ==
    /\ startup.pc \in {"events", "main"}
    /\ startup' = [startup EXCEPT !.paused = ~@,
                                  !.monitor_id = startup.paused]
    /\ IF ~startup.paused /\ otter_state = "visible"    \* tray.py, lines 191-194
       THEN hide_window
       ELSE UNCHANGED hw
    /\ UNCHANGED << screenshot_cache, last_valid_screenshots, win_lo, win_hi, cache_pc,
                    cache_updates, next_show_time, can_hide, menu_open, idle_hide,
                    idle_populate, redisplay_timers, pointer, now, sampled, cfg,
                    dir_vars, fn_vars >>
    /\ NoteEffect("on_toggle_pause", HideInitiated)

\* the loop of preprocess_startup_thumbnails, lines 314-329: the rest of the
\* body for window i + 1 of the snapshot.  resolved: the record has an xid and
\* get_window_by_xid returns its window; shot: get_screenshot returns a
\* thumbnail; an exception of the body is caught on line 328
PreprocessStoreWindow ==
    /\ startup.pc \in {"events", "work"}
    /\ \E resolved \in BOOLEAN, shot \in BOOLEAN :
        LET xid == startup.snapshot[startup.i + 1]
            captured == IF resolved /\ shot THEN {xid} ELSE {}
        IN /\ screenshot_cache' = StoreAll(screenshot_cache, << xid >>, captured,
                                           captured)
           /\ last_valid_screenshots' = last_valid_screenshots \cup captured
           /\ startup' = [startup EXCEPT !.pc = "loop", !.i = @ + 1,
                                         !.visited = Append(@, xid)]
    /\ UNCHANGED << win_lo, win_hi, cache_pc, cache_updates, display_vars, dir_vars,
                    fn_vars >>

\* preprocess_startup_thumbnails, lines 331-343: the loop is over (or the flag
\* was found cleared, line 309) and the finally clause runs
PreprocessFinally ==
    /\ startup.pc = "loop"
    /\ startup.i = Len(startup.snapshot) \/ ~startup.active
    /\ startup' = [startup EXCEPT !.pc = "done", !.active = FALSE, !.splash = FALSE]
    /\ cache_pc' = "running"
    /\ UNCHANGED << screenshot_cache, last_valid_screenshots, win_lo, win_hi,
                    cache_updates, display_vars, dir_vars, fn_vars >>

\* OtterApp.run, lines 421-425: edge_detector.start() (it arms the sampling
\* timer unless one is armed) and Gtk.main()
RunStartEdgeDetector ==
    /\ startup.pc = "done"
    /\ startup' = [startup EXCEPT !.pc = "main", !.monitor_id = TRUE]
    /\ UNCHANGED << screenshot_cache, last_valid_screenshots, win_lo, win_hi, cache_pc,
                    cache_updates, display_vars, dir_vars, fn_vars >>

\* ScreenshotManager.__init__: both dicts are empty; no window is open yet
InitCache ==
    /\ screenshot_cache = << >>
    /\ last_valid_screenshots = {}
    /\ win_lo = 1
    /\ win_hi = 0
    /\ cache_pc = "startup"
    /\ cache_updates = 0
    /\ startup = NoStartup

\* OtterApp.__init__ followed by run(): the state in which Gtk.main() is entered
\* the configurations the model starts from: every combination for the default
\* (north) edge, and the other edges with an immediate hide and main_character
\* (with hide_duration = 0 the shift handler is not connected and the behaviours
\* are those of a configuration with hide_duration > 0 in which no key is pressed)
Configs ==
    { c \in [ edge : Edges,
              hide_delay : {0, DelayMs},
              hide_duration : {SuppressMs},
              main_character : BOOLEAN ] :
        \/ c.edge = "north"
        \/ c.hide_delay = 0 /\ c.main_character }

InitDisplayIn(configs) ==
    /\ otter_state = "hidden"
    /\ next_show_time = NoTime
    /\ last_show_time = 0
    /\ delayed_hide_id = NoTime
    /\ can_hide = TRUE
    /\ menu_open = FALSE
    /\ window_shown = FALSE
    /\ idle_hide = 0
    /\ idle_populate = 0
    /\ sampled = FALSE
    /\ redisplay_timers = {}
    /\ cfg \in configs
    /\ pointer = << PanelPos[1] + PanelW \div 2, PanelPos[2] + PanelH \div 2 >>
    /\ now = StartTime
    /\ last = [op |-> "init", from |-> "hidden", init |-> FALSE, mon |-> TRUE, fs |-> FALSE,
              enum |-> FALSE]

InitDisplay == InitDisplayIn(Configs)

\* no pure function was called yet
NoFn == [op |-> "none"]

InitFn == fn_call = NoFn /\ fn_ret = NoFn

Init == InitDisplay /\ InitDirectory(StartTime, TRUE) /\ InitCache /\ InitFn

Next ==
    \/ CheckPosition
    \/ CheckStateTimer
    \/ OnShiftPressed
    \/ OnTrayShow
    \/ OnWindowClicked
    \/ IdleHideWindow
    \/ OnWindowChanged
    \/ IdlePopulateWindows
    \/ DelayedHideFires
    \/ OnContextMenu
    \/ OnMenuClosed
    \/ OnMiddleClick
    \/ RedisplayAfterWorkspaceSwitch
    \/ OnEnterNotify
    \/ MovePointer
    \/ AdvanceTime

Spec == Init /\ [][Next]_vars

(***************************************************************************)
(* The specification of the window directory                               *)
(***************************************************************************)
\* the display state machine as constructed, under the default configuration
InitDisplayDefault ==
    /\ otter_state = "hidden"
    /\ next_show_time = NoTime
    /\ last_show_time = 0
    /\ delayed_hide_id = NoTime
    /\ can_hide = TRUE
    /\ menu_open = FALSE
    /\ window_shown = FALSE
    /\ idle_hide = 0
    /\ idle_populate = 0
    /\ sampled = FALSE
    /\ redisplay_timers = {}
    /\ cfg = [edge |-> "north", hide_delay |-> 0, hide_duration |-> SuppressMs,
              main_character |-> FALSE]
    /\ pointer = << MonW \div 2, MonH \div 2 >>
    /\ last = [op |-> "init", from |-> "hidden", init |-> FALSE, mon |-> TRUE, fs |-> FALSE,
              enum |-> FALSE]

\* the directory as constructed (with or without a handle), or a directory that
\* has counted WNCK_MAX_CALLS calls in the WNCK_RECREATION_INTERVAL seconds
\* since its handle was made
InitDir ==
    /\ InitDisplayDefault
    /\ InitCache
    /\ InitFn
    /\ \/ /\ now = StartTime
          /\ \E init_ok \in BOOLEAN : InitDirectory(StartTime, init_ok)
       \/ /\ now = StartTime + IntervalMs
          /\ screen_wnck = TRUE
          /\ wnck_recreating = FALSE
          /\ wnck_last_recreation = StartTime
          /\ wnck_call_count = WNCK_MAX_CALLS
          /\ xserver \in [Xids -> {"closed", "ok"}]
          /\ dir_pc = "idle"
          /\ dir_last = NoCall
          /\ dir_recreations = 0
          /\ held_windows = {}

NextDir ==
    \/ OnWindowClickedActivateRaises
    \/ OnDragApp
    \/ KeyboardMoveFires
    \/ GetUserWindows
    \/ RecreateSettleOld
    \/ RecreateSettleNew
    \/ GetWindowByXid
    \/ XServerChanges
    \/ DirAdvance

SpecDir == InitDir /\ [][NextDir]_vars

(***************************************************************************)
(* The specification of the thumbnail cache                                *)
(***************************************************************************)
\* the program starts with any number of user windows open
InitCacheWindows ==
    /\ InitDisplayDefault
    /\ InitFn
    /\ now = StartTime
    /\ InitDirectory(StartTime, TRUE)
    /\ screenshot_cache = << >>
    /\ last_valid_screenshots = {}
    /\ win_lo = 1
    /\ win_hi \in NewestIds
    /\ cache_pc = "startup"
    /\ cache_updates = 0
    /\ startup = NoStartup

NextCache ==
    \/ PreprocessStartupThumbnails
    \/ UpdateScreenshotCache
    \/ Cleanup
    \/ WindowsChange

SpecCache == InitCacheWindows /\ [][NextCache]_vars

(***************************************************************************)
(* The timed specification of the display state machine: the sampling      *)
(* timer fires once every MOUSE_POLL_INTERVAL ms and a timer fires when it *)
(* is due.  The clock is kept relative so that time has no horizon: when   *)
(* time passes now stays and the recorded times move back                  *)
(***************************************************************************)
\* the hide delays of the timed model besides 0: one shorter and one longer
\* than the sampling interval
TimedConfigs ==
    [ edge : {"north"},
      hide_delay : {0, ShortDelayMs, LongDelayMs},
      hide_duration : {SuppressMs},
      main_character : {FALSE} ]

InitTimed ==
    /\ InitDisplayIn(TimedConfigs)
    /\ InitDirectory(StartTime, TRUE)
    /\ InitCache
    /\ InitFn

\* the timer of hide_window is due before the instant now
HideTimerOverdue == delayed_hide_id # NoTime /\ delayed_hide_id < now

\* the sampling timer fires (GLib.timeout_add(MOUSE_POLL_INTERVAL,
\* self._check_position), input.py line 38): once per instant, and after the
\* timers that were due earlier.  The pointer is on the monitor
SamplingTimerFires ==
    /\ ~sampled
    /\ ~HideTimerOverdue
    /\ check_position({TRUE})
    /\ sampled' = TRUE

\* a due time t, MOUSE_POLL_INTERVAL ms later: a timer that is overdue then
\* is as good as one overdue by 1 ms
Earlier(t) == IF t = NoTime THEN NoTime ELSE Max(t - MOUSE_POLL_INTERVAL, now - 1)

\* MOUSE_POLL_INTERVAL ms pass: no hide timer that is due is left waiting
IntervalPasses ==
    /\ UNCHANGED << dir_vars, cache_vars, fn_vars, idle_populate >>
    /\ delayed_hide_id = NoTime \/ delayed_hide_id > now
    /\ sampled' = FALSE
    /\ last_show_time' = Max(last_show_time - MOUSE_POLL_INTERVAL, now - ShowGraceMs)
    /\ delayed_hide_id' = Earlier(delayed_hide_id)
    /\ next_show_time' = Earlier(next_show_time)
    /\ redisplay_timers' = { Earlier(t) : t \in redisplay_timers }
    /\ UNCHANGED << otter_state, can_hide, menu_open, window_shown, idle_hide,
                    pointer, now, cfg >>
    /\ NoteEffect("env", FALSE)

\* MOUSE_POLL_INTERVAL ms pass, from one firing of the sampling timer to the
\* instant of the next
SamplingIntervalPasses == sampled /\ IntervalPasses

NextTimed ==
    \/ SamplingTimerFires
    \/ DelayedHideFires
    \/ SamplingIntervalPasses
    \/ MovePointer

\* the main loop dispatches the sampling timer and a timer that is due, and
\* time passes
SpecTimed ==
    /\ InitTimed
    /\ [][NextTimed]_vars
    /\ WF_vars(SamplingTimerFires)
    /\ WF_vars(DelayedHideFires)
    /\ WF_vars(SamplingIntervalPasses)

(***************************************************************************)
(* The timed specification of the suppression: the display state machine   *)
(* with the Shift key, the state timer, the tray's Pause / Resume and the   *)
(* workspace-switch redisplay, under the same clock as SpecTimed           *)
(***************************************************************************)
\* Gtk.main() is entered: the edge detector was started (main.py, run())
InitSuppress ==
    /\ InitDisplayIn(TimedConfigs)
    /\ InitDirectory(StartTime, TRUE)
    /\ InitFn
    /\ screenshot_cache = << >>
    /\ last_valid_screenshots = {}
    /\ win_lo = 1
    /\ win_hi = 0
    /\ cache_pc = "running"
    /\ cache_updates = 0
    /\ startup = [NoStartup EXCEPT !.pc = "main", !.monitor_id = TRUE]

\* the sampling timer fires while the edge detector has one (EdgeDetector.stop
\* removes it, input.py lines 41-46)
SamplingTimerFiresUnlessStopped ==
    /\ startup.monitor_id
    /\ SamplingTimerFires

\* MOUSE_POLL_INTERVAL ms pass; the sampling timer, if there is one, has fired
IntervalPassesUnlessSampling ==
    /\ startup.monitor_id => sampled
    /\ IntervalPasses

NextSuppress ==
    \/ SamplingTimerFiresUnlessStopped
    \/ DelayedHideFires
    \/ IntervalPassesUnlessSampling
    \/ MovePointer
    \/ OnShiftPressed
    \/ CheckStateTimer
    \/ OnTogglePause
    \/ OnMiddleClick
    \/ RedisplayAfterWorkspaceSwitch

\* the main loop dispatches every timer that is due: the sampling timer, the
\* delayed hide, the 100 ms state timer (main.py line 111) and the redisplay
\* timer of a middle click; and time passes.  Pause and Resume cannot hold
\* the clock: time passes, and the sampling timer fires, also in a run in
\* which the tray's Pause is toggled again and again (strong fairness)
SpecSuppress ==
    /\ InitSuppress
    /\ [][NextSuppress]_vars
    /\ SF_vars(SamplingTimerFiresUnlessStopped)
    /\ WF_vars(DelayedHideFires)
    /\ SF_vars(IntervalPassesUnlessSampling)
    /\ WF_vars(CheckStateTimer)
    /\ WF_vars(RedisplayAfterWorkspaceSwitch)

(***************************************************************************)
(* The specification of the startup: OtterApp.run() step by step           *)
(***************************************************************************)
\* the program starts with at most MaxStartupWindows user windows open
InitStartup ==
    /\ InitDisplayDefault
    /\ InitFn
    /\ now = StartTime
    /\ InitDirectory(StartTime, TRUE)
    /\ screenshot_cache = << >>
    /\ last_valid_screenshots = {}
    /\ win_lo = 1
    /\ win_hi \in 0 .. MaxStartupWindows
    /\ cache_pc = "startup"
    /\ cache_updates = 0
    /\ startup = NoStartup

NextStartup ==
    \/ PreprocessBegin
    \/ PreprocessReportProgress
    \/ OnTogglePause
    \/ PreprocessStoreWindow
    \/ PreprocessFinally
    \/ RunStartEdgeDetector

SpecStartup == InitStartup /\ [][NextStartup]_vars

(***************************************************************************)
(* The specification of the pure functions: a function is called with      *)
(* arguments drawn from bounded sets and its result is recorded            *)
(***************************************************************************)
\* a second monitor, to the right of the first one
Monitor2 == [x |-> MonW, y |-> 0, width |-> MonW, height |-> MonH]

\* the coordinates around the edges and the trigger zones of a monitor that
\* starts at lo and is len pixels long
EdgeCoords(lo, len, t) ==
    { lo - 1, lo, lo + t, lo + t + 1, lo + len \div 2,
      lo + len - t - 1, lo + len - t, lo + len - 1, lo + len }

\* the calls of check_edge_trigger
EdgeCalls ==
    { [op |-> "check_edge_trigger", x |-> x, y |-> y, edge |-> e, monitor |-> m,
       threshold |-> EDGE_TRIGGER_THRESHOLD] :
        x \in EdgeCoords(0, MonW, EDGE_TRIGGER_THRESHOLD)
                 \cup EdgeCoords(MonW, MonW, EDGE_TRIGGER_THRESHOLD),
        y \in EdgeCoords(0, MonH, EDGE_TRIGGER_THRESHOLD),
        e \in Edges, m \in {Monitor, Monitor2} }

\* WindowManager.get_window_id: the
\* id of window w, 0 when get_xid() raises
get_window_id(w) == IF w.xid_ok THEN w.xid ELSE NoXid

\* ScreenshotManager.capture_window followed by scale_pixbuf: the thumbnail
\* made of window w, "none" when get_xid() raises, the window is not
\* viewable, the capture fails or the scaling fails
capture_and_scale(w) ==
    IF w.xid_ok /\ w.capture_ok /\ w.scale_ok THEN "new" ELSE "none"

\* a faulty get_screenshot: a minimized window is captured like any other
get_screenshot_live(w, last_valid) ==
    IF ~w.valid
    THEN [value |-> "none", captures |-> 0, last_valid |-> last_valid]
    ELSE IF w.valid_at_capture /\ capture_and_scale(w) # "none"
         THEN [value |-> "new", captures |-> 1,
               last_valid |-> [last_valid EXCEPT ![get_window_id(w)] = "new"]]
         ELSE [value |-> last_valid[get_window_id(w)],
               captures |-> IF w.valid_at_capture THEN 1 ELSE 0,
               last_valid |-> last_valid]

\* ScreenshotManager.get_screenshot(window): the thumbnail returned ("none":
\* None), the number of capture_window calls made and last_valid_screenshots
\* afterwards.  last_valid maps an id to "none" (no entry) or to a thumbnail
get_screenshot(w, last_valid) ==
    IF ~w.valid
    THEN [value |-> "none", captures |-> 0, last_valid |-> last_valid]
    ELSE IF w.minimized \in {"yes", "raises"}
         THEN [value |-> last_valid[get_window_id(w)], captures |-> 0,
               last_valid |-> last_valid]
         ELSE IF w.valid_at_capture /\ capture_and_scale(w) # "none"
              THEN [value |-> "new", captures |-> 1,
                    last_valid |-> [last_valid EXCEPT ![get_window_id(w)] = "new"]]
              ELSE [value |-> last_valid[get_window_id(w)],
                    captures |-> IF w.valid_at_capture THEN 1 ELSE 0,
                    last_valid |-> last_valid]

\* the windows get_screenshot is called with: valid, window_is_valid at
\* line 126; xid_ok, get_xid() does not raise; minimized, what is_minimized()
\* does; valid_at_capture, window_is_valid at line 142; capture_ok and
\* scale_ok, capture_window and scale_pixbuf return a pixbuf
ShotWindows ==
    [ xid : Xids, valid : BOOLEAN, xid_ok : BOOLEAN,
      minimized : {"yes", "no", "raises"}, valid_at_capture : BOOLEAN,
      capture_ok : BOOLEAN, scale_ok : BOOLEAN ]

\* the calls of get_screenshot: no thumbnail is ever stored under the id 0
ShotCalls ==
    { [op |-> "get_screenshot", window |-> w, last_valid |-> lv] :
        w \in ShotWindows,
        lv \in { f \in [{NoXid} \cup Xids -> {"none", "old"}] : f[NoXid] = "none" } }

\* str.lower() of a string given as the sequence of its character codes
lower(s) == [ i \in 1 .. Len(s) |-> IF s[i] >= 65 /\ s[i] <= 90 THEN s[i] + 32 ELSE s[i] ]

\* a < b for two strings: the order list.sort uses on str keys
RECURSIVE StrLess(_, _)
StrLess(a, b) ==
    IF b = << >> THEN FALSE
    ELSE IF a = << >> THEN TRUE
    ELSE IF Head(a) # Head(b) THEN Head(a) < Head(b)
    ELSE StrLess(Tail(a), Tail(b))

\* list.sort: the stable sort of s, before[i][j] telling that the key of
\* s[i] sorts before the key of s[j]; elements with equal keys keep their
\* order, also under reverse=True
SortedBy(s, before) ==
    LET n == Len(s)
        rank(i) == 1 + Cardinality({ j \in 1 .. n :
                                       \/ before[j][i]
                                       \/ ~before[i][j] /\ j < i })
    IN [ k \in 1 .. n |-> s[CHOOSE i \in 1 .. n : rank(i) = k] ]

\* get_user_windows, lines 345-347: the MRU timestamp of a record, 0 for a
\* record without an id and for an id without a timestamp
get_timestamp(w, mru_timestamps) ==
    IF w.xid # NoXid THEN mru_timestamps[w.xid] ELSE 0

\* windows.sort(key=get_timestamp, reverse=True)
sort_by_timestamp(windows, mru_timestamps) ==
    SortedBy(windows,
             [ i \in 1 .. Len(windows) |-> [ j \in 1 .. Len(windows) |->
                 get_timestamp(windows[i], mru_timestamps)
                    > get_timestamp(windows[j], mru_timestamps) ] ])

\* windows.sort(key=lambda w: w['app_name'].lower())
sort_by_app_name(windows) ==
    SortedBy(windows,
             [ i \in 1 .. Len(windows) |-> [ j \in 1 .. Len(windows) |->
                 StrLess(lower(windows[i].app_name), lower(windows[j].app_name)) ] ])

\* a faulty MRU ordering: the sort by application name is left out
mru_order_by_time_only(windows, recent, mru_timestamps) ==
    IF recent THEN sort_by_timestamp(windows, mru_timestamps) ELSE windows

\* get_user_windows, lines 341-354: the list returned for the enumerated
\* records; under config 'recent' it is sorted by app_name.lower() and then,
\* with reverse=True, by timestamp
mru_order(windows, recent, mru_timestamps) ==
    IF recent
    THEN sort_by_timestamp(sort_by_app_name(windows), mru_timestamps)
    ELSE windows

\* the application names "Zeta", "Alpha" and "alpha"
AppNames == { <<90, 101, 116, 97>>, <<65, 108, 112, 104, 97>>, <<97, 108, 112, 104, 97>> }

\* the MRU timestamps: 0 stands for an id without a timestamp
Timestamps == {0, 100, 200}

\* the lists of at most MaxSorted enumerated records: the record at position
\* i is of window i; pos is its place in the enumeration
SortLists ==
    UNION { { [ i \in 1 .. n |-> [pos |-> i, xid |-> IF i \in unread THEN NoXid ELSE i,
                                  app_name |-> names[i]] ] :
                names \in [1 .. n -> AppNames], unread \in SUBSET (1 .. n) } :
            n \in 0 .. MaxSorted }

\* the calls of the ordering step of get_user_windows
SortCalls ==
    { [op |-> "mru_order", windows |-> w, recent |-> r, mru_timestamps |-> t] :
        w \in SortLists, r \in BOOLEAN, t \in [1 .. MaxSorted -> Timestamps] }

\* constants.SYSTEM_APPS, each string as the sequence of its character codes
SYSTEM_APPS ==
    { <<103, 110, 111, 109, 101, 45, 115, 104, 101, 108, 108>>,   \* gnome-shell
      <<99, 105, 110, 110, 97, 109, 111, 110>>,   \* cinnamon
      <<103, 110, 111, 109, 101, 45, 115, 101, 116, 116, 105, 110, 103, 115, 45, 100, 97, 101, 109, 111, 110>>,   \* gnome-settings-daemon
      <<103, 110, 111, 109, 101, 45, 112, 97, 110, 101, 108>>,   \* gnome-panel
      <<109, 97, 116, 101, 45, 112, 97, 110, 101, 108>>,   \* mate-panel
      <<120, 102, 99, 101, 52, 45, 112, 97, 110, 101, 108>>,   \* xfce4-panel
      <<112, 108, 97, 115, 109, 97, 45, 100, 101, 115, 107, 116, 111, 112>>,   \* plasma-desktop
      <<107, 119, 105, 110>>,   \* kwin
      <<99, 111, 109, 112, 105, 122>>,   \* compiz
      <<109, 101, 116, 97, 99, 105, 116, 121>>,   \* metacity
      <<109, 117, 116, 116, 101, 114>>,   \* mutter
      <<117, 110, 105, 116, 121>>,   \* unity
      <<117, 110, 105, 116, 121, 45, 112, 97, 110, 101, 108, 45, 115, 101, 114, 118, 105, 99, 101>>,   \* unity-panel-service
      <<68, 101, 115, 107, 116, 111, 112>>,   \* Desktop
      <<79, 116, 116, 101, 114, 32, 87, 105, 110, 100, 111, 119, 32, 83, 119, 105, 116, 99, 104, 101, 114>> }   \* Otter Window Switcher

\* the title of the panel, "Otter Window Switcher" (ui.py, line 87)
PanelTitle == <<79, 116, 116, 101, 114, 32, 87, 105, 110, 100, 111, 119, 32, 83, 119, 105, 116, 99, 104, 101, 114>>

\* the window titles of the model: "", " ", "Vim", "Notes" and the panel's title
WindowNames == { << >>, <<32>>, <<86, 105, 109>>, <<78, 111, 116, 101, 115>>, PanelTitle }

\* the class group names of the model: none, "Cinnamon" and "Editor"
ClassGroupNames == { << >>, <<67, 105, 110, 110, 97, 109, 111, 110>>, <<69, 100, 105, 116, 111, 114>> }

\* the ignore lists of the model: the empty one and ["vim"]
IgnoreLists == { {}, { <<118, 105, 109>> } }

\* the title a window without a title is given: "Unknown"
UnknownName == <<85, 110, 107, 110, 111, 119, 110>>

\* not s.strip(): the string is empty or holds whitespace only
is_blank(s) == \A i \in 1 .. Len(s) : s[i] \in {9, 10, 11, 12, 13, 32}

\* WindowManager._get_app_name(window, window_name) for a window that has a
\* class group name or no class at all, and a title without " - ", " | "
\* and ": ": the class group name, else the title
get_app_name(w, window_name) ==
    IF ~is_blank(w.class_group_name) THEN w.class_group_name ELSE window_name

\* get_user_windows, lines 262-287: the window is given a record.  valid:
\* get_name() returns a string and does not raise; type: what
\* get_window_type() returns ("raises": it raises, the window is skipped)
is_user_window(w, ignore_list) ==
    IF ~w.valid \/ w.type # "normal"
    THEN FALSE
    ELSE LET window_name == IF w.name = << >> THEN UnknownName ELSE w.name
             app_name == get_app_name(w, window_name)
             is_ignored == \E ignored \in ignore_list :
                               lower(window_name) = lower(ignored)
         IN ~( \/ \E app \in SYSTEM_APPS : lower(app_name) = lower(app)
               \/ is_ignored
               \/ window_name = PanelTitle
               \/ is_blank(window_name) )

\* the windows get_windows() returns
RawWindows ==
    [ valid : BOOLEAN, type : {"normal", "utility", "raises"}, name : WindowNames,
      class_group_name : ClassGroupNames ]

\* the calls of the filter of get_user_windows
FilterCalls ==
    { [op |-> "is_user_window", window |-> w, ignore_list |-> l] :
        w \in RawWindows, l \in IgnoreLists }

\* ---- the capture chain of otter.py (OtterWindowSwitcher) ----
\* the keys of the two dicts of otter.py: the ids of the windows and, for a
\* window whose get_xid() raises, the string get_window_id makes of its name
\* (key MaxXid + x stands for that string of window x)
LegacyKeys == 1 .. 2 * MaxXid

\* OtterWindowSwitcher.get_window_id (otter.py)
legacy_get_window_id(w) == IF w.xid_ok THEN w.xid ELSE MaxXid + w.xid

\* window_is_valid at check k of a window that closes just before check
\* closes_at.  The checks made on one window while update_screenshot_cache
\* handles it are, in the order they are made: 1 and 2, lines 643 and 651 of
\* the loop; 3 to 7, lines 692, 699, 715, 724 and 733 of
\* capture_high_quality_screenshot
valid_at(w, k) == k < w.closes_at

\* OtterWindowSwitcher.capture_high_quality_screenshot(window): the thumbnail
\* returned ("none": None; "old": the entry last_valid_screenshots had;
\* "isolated", "area": the scaled capture of that attempt), the capture
\* attempts made, last_valid_screenshots afterwards, and whether
\* capture_with_temporary_raise queued _do_capture_after_raise.
\* w.isolated: capture_isolated_window and the scaling return a pixbuf (they
\* do not when get_xid() raises); w.raise: capture_with_temporary_raise
\* activates the window and queues the deferred capture (it returns None in
\* every case); w.area: capture_screen_area returns a scaled pixbuf
capture_high_quality_screenshot(w, last_valid) ==
    LET window_id == legacy_get_window_id(w)
        cached == last_valid[window_id]
        is_minimized == IF valid_at(w, 4) THEN w.minimized # "no" ELSE TRUE
        s1 == valid_at(w, 5)
        ok1 == s1 /\ w.xid_ok /\ w.isolated
        s2 == ~ok1 /\ valid_at(w, 6)
        s3 == ~ok1 /\ valid_at(w, 7)
        ok3 == s3 /\ w.area
        tried == (IF s1 THEN << "isolated" >> ELSE << >>)
                 \o (IF s2 THEN << "raise" >> ELSE << >>)
                 \o (IF s3 THEN << "area" >> ELSE << >>)
    IN IF ~valid_at(w, 3)
       THEN [value |-> "none", attempts |-> << >>, last_valid |-> last_valid,
             scheduled |-> FALSE]
       ELSE IF is_minimized
       THEN [value |-> cached, attempts |-> << >>, last_valid |-> last_valid,
             scheduled |-> FALSE]
       ELSE IF ok1
       THEN [value |-> "isolated", attempts |-> tried,
             last_valid |-> [last_valid EXCEPT ![window_id] = "isolated"],
             scheduled |-> FALSE]
       ELSE IF ok3
       THEN [value |-> "area", attempts |-> tried,
             last_valid |-> [last_valid EXCEPT ![window_id] = "area"],
             scheduled |-> s2 /\ w.raise]
       ELSE [value |-> cached, attempts |-> tried, last_valid |-> last_valid,
             scheduled |-> s2 /\ w.raise]

\* OtterWindowSwitcher.update_screenshot_cache, lines 636-657: what the loop
\* does with one window of the snapshot.  called: it called
\* capture_high_quality_screenshot, whose result is chain
update_screenshot_cache_window(w, cache, last_valid) ==
    LET window_id == legacy_get_window_id(w)
        chain == capture_high_quality_screenshot(w, last_valid)
    IN IF ~valid_at(w, 1) \/ ~valid_at(w, 2)
       THEN [called |-> FALSE, cache |-> cache, last_valid |-> last_valid]
       ELSE [called |-> TRUE, chain |-> chain,
             cache |-> IF chain.value # "none"
                       THEN [cache EXCEPT ![window_id] = chain.value] ELSE cache,
             last_valid |-> chain.last_valid]

\* OtterWindowSwitcher._do_capture_after_raise(window, active_window,
\* timestamp), the idle callback queued by capture_with_temporary_raise: the
\* two dicts afterwards and whether it captured ("raised": the scaled capture).
\* w.valid: window_is_valid at line 843; w.raises: get_geometry() or the
\* capture raises (the except clause of line 871 ends the callback);
\* w.region_ok: the geometry is not empty and pixbuf_get_from_window returns
\* a pixbuf; w.scale_ok: the scaling returns one; w.active: the window that
\* was active before the raise ("none", "same": the target itself, "other":
\* another window that is still valid, "other_closed": one that is not).
\* restored: active_window.activate(timestamp + 1) was called (line 866)
do_capture_after_raise(w, cache, last_valid) ==
    LET captured == w.valid /\ ~w.raises /\ w.region_ok /\ w.scale_ok
        restored == w.valid /\ ~w.raises /\ w.active = "other"
    IN [ captured |-> captured,
         cache |-> IF captured
                   THEN [cache EXCEPT ![legacy_get_window_id(w)] = "raised"]
                   ELSE cache,
         last_valid |-> last_valid,
         restored |-> restored ]

\* a dict of otter.py that holds the value v under key k and nothing else
LegacyDict(k, v) == [ key \in LegacyKeys |-> IF key = k THEN v ELSE "none" ]

\* the windows update_screenshot_cache finds in its snapshot
LegacyWindows ==
    [ xid : Xids, xid_ok : BOOLEAN, closes_at : 1 .. 8,
      minimized : {"yes", "no", "raises"}, isolated : BOOLEAN, raise : BOOLEAN,
      area : BOOLEAN ]

\* the calls of the loop body of update_screenshot_cache: each dict holds an
\* earlier thumbnail of the window or none
LegacyCaptureCalls ==
    { [op |-> "update_screenshot_cache_window", window |-> w,
       cache |-> LegacyDict(legacy_get_window_id(w), c),
       last_valid |-> LegacyDict(legacy_get_window_id(w), l)] :
        w \in LegacyWindows, c \in {"none", "old"}, l \in {"none", "old"} }

\* ---- the grid of the panel: geometry.py ----
\* calculate_layout_dimensions(window_count, nrows, ncols): << rows, cols >>
calculate_layout_dimensions(window_count, nrows, ncols) ==
    IF window_count = 0
    THEN << 1, 1 >>
    ELSE IF nrows # NoRows
         THEN << nrows, Max(1, (window_count + nrows - 1) \div nrows) >>
         ELSE << Max(1, (window_count + ncols - 1) \div ncols), ncols >>

\* the calls of the layout calculation: --nrows and --ncols are at least 1
\* (config.py, lines 109-112)
LayoutCalls ==
    { [op |-> "calculate_layout_dimensions", window_count |-> n, nrows |-> r,
       ncols |-> c] :
        n \in 0 .. MaxLayoutWindows, r \in {NoRows} \cup (1 .. MaxGrid),
        c \in 1 .. MaxGrid }

FnCalls ==
    EdgeCalls \cup ShotCalls \cup SortCalls \cup FilterCalls
        \cup LegacyCaptureCalls \cup LayoutCalls

InitFnCall ==
    /\ InitDisplayDefault
    /\ now = StartTime
    /\ InitDirectory(StartTime, TRUE)
    /\ InitCache
    /\ fn_call \in FnCalls
    /\ fn_ret = NoFn

\* the function has not returned yet
FnPending(op) == fn_call.op = op /\ fn_ret = NoFn

CallCheckEdgeTrigger ==
    /\ FnPending("check_edge_trigger")
    /\ fn_ret' = [op |-> fn_call.op,
                  value |-> check_edge_trigger(fn_call.x, fn_call.y, fn_call.edge,
                                               fn_call.monitor, fn_call.threshold)]
    /\ UNCHANGED << fn_call, display_vars, dir_vars, cache_vars >>

CallGetScreenshot ==
    /\ FnPending("get_screenshot")
    /\ LET r == get_screenshot(fn_call.window, fn_call.last_valid)
       IN fn_ret' = [op |-> fn_call.op, value |-> r.value, captures |-> r.captures,
                     last_valid |-> r.last_valid]
    /\ UNCHANGED << fn_call, display_vars, dir_vars, cache_vars >>

CallMruOrder ==
    /\ FnPending("mru_order")
    /\ fn_ret' = [op |-> fn_call.op,
                  value |-> mru_order(fn_call.windows, fn_call.recent,
                                      fn_call.mru_timestamps)]
    /\ UNCHANGED << fn_call, display_vars, dir_vars, cache_vars >>

CallIsUserWindow ==
    /\ FnPending("is_user_window")
    /\ fn_ret' = [op |-> fn_call.op,
                  value |-> is_user_window(fn_call.window, fn_call.ignore_list)]
    /\ UNCHANGED << fn_call, display_vars, dir_vars, cache_vars >>

CallUpdateScreenshotCacheWindow ==
    /\ FnPending("update_screenshot_cache_window")
    /\ LET r == update_screenshot_cache_window(fn_call.window, fn_call.cache,
                                               fn_call.last_valid)
       IN fn_ret' = [op |-> fn_call.op, called |-> r.called,
                     chain |-> IF r.called THEN r.chain ELSE NoFn,
                     cache |-> r.cache, last_valid |-> r.last_valid]
    /\ UNCHANGED << fn_call, display_vars, dir_vars, cache_vars >>

\* what screen_wnck.get_active_window() returned to capture_with_temporary_raise
\* (otter.py, line 822), as _do_capture_after_raise finds it
ActiveWindows == {"none", "same", "other", "other_closed"}

\* the idle callback queued by the capture chain runs: _do_capture_after_raise
\* on the dicts the loop left.  The window may have closed meanwhile; sync is
\* history, what the chain that queued the callback had returned
CallDoCaptureAfterRaise ==
    /\ fn_ret.op = "update_screenshot_cache_window"
    /\ fn_ret.called
    /\ fn_ret.chain.scheduled
    /\ \E valid \in (IF fn_call.window.closes_at = 8 THEN BOOLEAN ELSE {FALSE}),
          raises \in BOOLEAN, region_ok \in BOOLEAN, scale_ok \in BOOLEAN,
          active \in ActiveWindows :
        LET w == [xid |-> fn_call.window.xid, xid_ok |-> fn_call.window.xid_ok,
                  valid |-> valid, raises |-> raises, region_ok |-> region_ok,
                  scale_ok |-> scale_ok, active |-> active]
            r == do_capture_after_raise(w, fn_ret.cache, fn_ret.last_valid)
        IN fn_ret' = [op |-> "do_capture_after_raise", captured |-> r.captured,
                      cache |-> r.cache, last_valid |-> r.last_valid,
                      sync |-> fn_ret.chain, valid |-> valid, raises |-> raises,
                      active |-> active, restored |-> r.restored]
    /\ UNCHANGED << fn_call, display_vars, dir_vars, cache_vars >>

CallCalculateLayoutDimensions ==
    /\ FnPending("calculate_layout_dimensions")
    /\ fn_ret' = [op |-> fn_call.op,
                  value |-> calculate_layout_dimensions(fn_call.window_count,
                                                        fn_call.nrows, fn_call.ncols)]
    /\ UNCHANGED << fn_call, display_vars, dir_vars, cache_vars >>

NextFn ==
    \/ CallCalculateLayoutDimensions
    \/ CallUpdateScreenshotCacheWindow
    \/ CallDoCaptureAfterRaise
    \/ CallCheckEdgeTrigger
    \/ CallIsUserWindow
    \/ CallMruOrder
    \/ CallGetScreenshot

SpecFn == InitFnCall /\ [][NextFn]_vars

(***************************************************************************)
(* Properties of the display state machine (specification Spec)            *)
(***************************************************************************)
\* the trigger zone of the configured edge: the pixels of the monitor within
\* EDGE_TRIGGER_THRESHOLD pixels of that edge, the threshold included
InTriggerZone(p) ==
    /\ 0 <= p[1] /\ p[1] < MonW /\ 0 <= p[2] /\ p[2] < MonH
    /\ CASE cfg.edge = "north" -> p[2] <= EDGE_TRIGGER_THRESHOLD
         [] cfg.edge = "south" -> p[2] >= MonH - EDGE_TRIGGER_THRESHOLD
         [] cfg.edge = "east"  -> p[1] >= MonW - EDGE_TRIGGER_THRESHOLD
         [] OTHER              -> p[1] <= EDGE_TRIGGER_THRESHOLD

\* the distance of p to the panel rectangle, 0 inside it (the larger of the
\* horizontal and the vertical distance)
PanelDistance(p) ==
    LET dx == Max(Max(PanelPos[1] - p[1], p[1] - (PanelPos[1] + PanelW)), 0)
        dy == Max(Max(PanelPos[2] - p[2], p[2] - (PanelPos[2] + PanelH)), 0)
    IN Max(dx, dy)

C3_OnlyTimerLeavesDisabled ==
    (last.from = "disabled" /\ otter_state # "disabled")
        => last.op = "check_state_timer"

\* C8: no step takes the state from Visible to Hidden while a context menu
\* is open (can_hide is false then), and closing the menu sets can_hide.
C8_NoHideWhileMenuOpen ==
    /\ menu_open => ~can_hide
    /\ (last.from = "visible" /\ otter_state = "hidden") => ~menu_open
    /\ last.op = "on_menu_closed" => can_hide

\* C9: a sampling tick in Visible initiates a hide (hides the panel or arms
\* the delayed hide) only if the pointer is more than 10 px away from the
\* panel, is not in the trigger zone, at least 300 ms have passed since
\* last_show_time and no context menu is open.
C9_HideOnlyOutsideHotbox ==
    (last.op = "check_position" /\ last.from = "visible" /\ last.init)
        => /\ PanelDistance(pointer) > 10
           /\ ~InTriggerZone(pointer)
           /\ now - last_show_time >= 300
           /\ ~menu_open
           /\ can_hide

\* a tick initiated a hide with the pointer exactly 11 px outside the panel
C9_Witness ==
    /\ last.op = "check_position"
    /\ last.from = "visible"
    /\ last.init
    /\ PanelDistance(pointer) = 11

\* C10: a sampling tick in Hidden ends in Visible exactly when a monitor
\* contains the pointer, the pointer is in the trigger zone of the configured
\* edge and it is not the case that main_character is set and the directory
\* reports the active window fullscreen.
C10_TriggerIff ==
    (last.op = "check_position" /\ last.from = "hidden")
        => ( otter_state = "visible"
             <=> ( last.mon /\ InTriggerZone(pointer)
                   /\ ~(cfg.main_character /\ last.fs) ) )

\* a tick showed the panel although the active window is fullscreen,
\* main_character being off
C10_Witness ==
    /\ last.op = "check_position"
    /\ last.from = "hidden"
    /\ otter_state = "visible"
    /\ ~cfg.main_character
    /\ last.fs

(***************************************************************************)
(* Properties of the window directory (specification SpecDir)              *)
(***************************************************************************)
\* a get_user_windows call has returned and nothing happened since
ListDone == dir_pc = "idle" /\ dir_last.op = "get_user_windows"

C7_RecordsResolve ==
    ListDone =>
        \A i \in 1 .. Len(dir_last.result) :
            LET r == dir_last.result[i]
            IN window_is_valid(r.src) => get_window_by_xid(r.xid, {}).window = r.src

(***************************************************************************)
(* Properties of the thumbnail cache (specification SpecCache)             *)
(***************************************************************************)
\* C1: screenshot_cache never holds more than MAX_CACHE_SIZE entries, whether
\* startup preprocessing or update_cache stored them and however many
\* windows are open.
C1_CacheBounded == Len(screenshot_cache) <= 100

(***************************************************************************)
(* Properties of the window directory, continued (specification SpecDir)   *)
(***************************************************************************)
\* a get_user_windows call that went past the checks of the handle and of
\* wnck_recreating runs or has returned
ListCall == dir_last.op = "get_user_windows" /\ ~dir_last.early

C17_FailSoft ==
    /\ ~dir_last.raised
    /\ (dir_pc = "idle" /\ dir_last.op = "get_user_windows" /\ ~screen_wnck
            /\ dir_last.sched + dir_last.fail = 0)
          => dir_last.result = << >>
    /\ \A active_fullscreen \in BOOLEAN :
          ~is_active_window_fullscreen(FALSE, active_fullscreen).answer
    /\ \A w \in ShotWindows :
          LET lv == [x \in {NoXid} \cup Xids |-> "none"]
          IN (~w.valid \/ ~(w.xid_ok /\ w.capture_ok /\ w.scale_ok))
                => get_screenshot(w, lv).value = "none"

\* force_update() went through, get_windows() failed: the call returned []
\* although user windows are open
C17_Witness ==
    /\ ListDone /\ ~dir_last.early
    /\ dir_last.refreshes = 1
    /\ ~dir_last.refresh_failed
    /\ screen_wnck
    /\ UserWindows # {}
    /\ dir_last.result = << >>
    /\ ~dir_last.raised

C19_HandlesResolvedInCallback ==
    dir_last.used # 0 => dir_last.resolved

(***************************************************************************)
(* Properties of the pure functions (specification SpecFn)                 *)
(***************************************************************************)
\* C11: check_edge_trigger(x, y, edge, monitor, t) is true exactly when
\* north: y <= my + t; south: y >= my + mh - t; east: x >= mx + mw - t;
\* west: x <= mx + t, for every pointer and every monitor.
C11_EdgePredicate ==
    fn_ret.op = "check_edge_trigger"
        => ( fn_ret.value
             <=> CASE fn_call.edge = "north" ->
                        fn_call.y <= fn_call.monitor.y + fn_call.threshold
                   [] fn_call.edge = "south" ->
                        fn_call.y >= fn_call.monitor.y + fn_call.monitor.height
                                        - fn_call.threshold
                   [] fn_call.edge = "east" ->
                        fn_call.x >= fn_call.monitor.x + fn_call.monitor.width
                                        - fn_call.threshold
                   [] OTHER ->
                        fn_call.x <= fn_call.monitor.x + fn_call.threshold )

\* C13: get_screenshot of a valid window that is minimized returns the entry
\* of last_valid_screenshots under the window's id, None when there is none,
\* makes no capture_window call and leaves last_valid_screenshots as it was.
C13_MinimizedNotCaptured ==
    ( /\ fn_ret.op = "get_screenshot"
      /\ fn_call.window.valid
      /\ fn_call.window.minimized = "yes" )
        => /\ fn_ret.captures = 0
           /\ fn_ret.value = fn_call.last_valid[get_window_id(fn_call.window)]
           /\ fn_ret.last_valid = fn_call.last_valid

\* a minimized window that could have been captured got its earlier thumbnail
C13_Witness ==
    /\ fn_ret.op = "get_screenshot"
    /\ fn_call.window.valid /\ fn_call.window.xid_ok
    /\ fn_call.window.minimized = "yes"
    /\ fn_call.window.valid_at_capture
    /\ fn_call.window.capture_ok /\ fn_call.window.scale_ok
    /\ fn_call.last_valid[fn_call.window.xid] = "old"
    /\ fn_ret.value = "old"
    /\ fn_ret.captures = 0

\* C14: under config 'recent' the list get_user_windows returns holds the
\* enumerated records ordered by MRU timestamp, latest first (a record
\* without a timestamp counts as 0 and comes last); records with equal
\* timestamps are ordered by app_name.lower() ascending; records equal in
\* both keep their enumeration order.  Without 'recent' the list is in
\* enumeration order.
C14_RecentOrder ==
    fn_ret.op = "mru_order" =>
        LET r == fn_ret.value
            ts(w) == IF w.xid = 0 THEN 0 ELSE fn_call.mru_timestamps[w.xid]
            app(w) == lower(w.app_name)
        IN IF fn_call.recent
           THEN /\ Len(r) = Len(fn_call.windows)
                /\ Range(r) = Range(fn_call.windows)
                /\ \A i \in 1 .. Len(r), j \in 1 .. Len(r) :
                     i < j =>
                        \/ ts(r[i]) > ts(r[j])
                        \/ ts(r[i]) = ts(r[j]) /\ StrLess(app(r[i]), app(r[j]))
                        \/ ts(r[i]) = ts(r[j]) /\ app(r[i]) = app(r[j])
                             /\ r[i].pos < r[j].pos
           ELSE r = fn_call.windows

\* A ("Zeta", no timestamp), B ("Alpha", 100), C ("Alpha", 200) come out as
\* C, B, A
C14_Witness ==
    /\ fn_ret.op = "mru_order"
    /\ fn_call.recent
    /\ Len(fn_call.windows) = 3
    /\ \A i \in 1 .. 3 : fn_call.windows[i].xid = i
    /\ fn_call.windows[1].app_name = <<90, 101, 116, 97>>
    /\ fn_call.windows[2].app_name = <<65, 108, 112, 104, 97>>
    /\ fn_call.windows[3].app_name = <<65, 108, 112, 104, 97>>
    /\ fn_call.mru_timestamps = <<0, 100, 200>>
    /\ fn_ret.value = << fn_call.windows[3], fn_call.windows[2], fn_call.windows[1] >>

\* C20: a window of get_windows() is given a record exactly when it is valid,
\* its type is NORMAL, its title is not empty (or blank), its title equals no
\* entry of the ignore list and its application name no entry of
\* SYSTEM_APPS, case-insensitively, and it is not the panel (the window
\* titled "Otter Window Switcher"); a window with an empty title is never
\* given a record.
C20_FilterIff ==
    fn_ret.op = "is_user_window" =>
        LET w == fn_call.window
            app_name == IF w.class_group_name # << >> THEN w.class_group_name ELSE w.name
        IN /\ fn_ret.value
                <=> /\ w.valid
                    /\ w.type = "normal"
                    /\ ~is_blank(w.name)
                    /\ \A ignored \in fn_call.ignore_list : lower(w.name) # lower(ignored)
                    /\ \A app \in SYSTEM_APPS : lower(app_name) # lower(app)
                    /\ w.name # PanelTitle
           /\ w.name = << >> => ~fn_ret.value

(***************************************************************************)
(* Properties of the thumbnail cache, continued (specification SpecCache)  *)
(***************************************************************************)
\* C12: when update_cache finds more than MAX_CACHE_SIZE entries (all of
\* windows that are still open), it leaves exactly 100 entries: the
\* earliest-inserted entries in excess are gone and the later ones are kept.
C12_EvictsEarliest ==
    ( /\ fn_call.op = "update_cache"
      /\ Len(fn_call.cache) > 100
      /\ Range(fn_call.cache) \subseteq Range(fn_call.current_windows) )
        => LET excess == Len(fn_call.cache) - 100
               keys == Range(screenshot_cache)
           IN /\ Len(screenshot_cache) = 100
              /\ \A i \in 1 .. excess : fn_call.cache[i] \notin keys
              /\ \A i \in (excess + 1) .. Len(fn_call.cache) : fn_call.cache[i] \in keys

C22_StoredInBoth ==
    /\ (fn_ret.op = "get_screenshot" /\ fn_ret.captures = 1
            /\ capture_and_scale(fn_call.window) # "none")
          => /\ fn_ret.value = "new"
             /\ fn_ret.last_valid[get_window_id(fn_call.window)] = "new"
    /\ (fn_ret.op = "update_screenshot_cache_window" /\ fn_ret.called
            /\ fn_ret.chain.value \in {"isolated", "area"})
          => /\ fn_ret.cache[legacy_get_window_id(fn_call.window)] = fn_ret.chain.value
             /\ fn_ret.last_valid[legacy_get_window_id(fn_call.window)]
                   = fn_ret.chain.value
    /\ (fn_ret.op = "do_capture_after_raise" /\ fn_ret.captured)
          => /\ fn_ret.cache[legacy_get_window_id(fn_call.window)] = "raised"
             /\ fn_ret.last_valid[legacy_get_window_id(fn_call.window)] = "raised"

\* C23: for a window that is not minimized capture_high_quality_screenshot
\* tries the isolated capture, the raise-and-capture and the screen-area
\* capture in this order, each only if the validity check right before it
\* succeeds, then the entry of last_valid_screenshots, then None; it returns
\* the result of the first attempt that succeeds and makes no attempt after
\* it.  The raise-and-capture succeeds when the capture it starts is made.
C23_FirstSuccessWins ==
    LET w == fn_call.window
        ok1 == valid_at(w, 5) /\ w.xid_ok /\ w.isolated
        ok3 == valid_at(w, 7) /\ w.area
        cached == fn_call.last_valid[legacy_get_window_id(w)]
        \* what the chain does when the raise-and-capture does not succeed
        WithoutRaise(chain) ==
            /\ "area" \in Range(chain.attempts) <=> valid_at(w, 7)
            /\ chain.value = IF ok3 THEN "area" ELSE cached
    IN /\ ( /\ fn_ret.op = "update_screenshot_cache_window"
            /\ fn_ret.called
            /\ valid_at(w, 4) /\ w.minimized = "no" )
          => /\ "isolated" \in Range(fn_ret.chain.attempts) <=> valid_at(w, 5)
             /\ ok1 => /\ fn_ret.chain.value = "isolated"
                       /\ fn_ret.chain.attempts = << "isolated" >>
             /\ ~ok1 => ("raise" \in Range(fn_ret.chain.attempts) <=> valid_at(w, 6))
             /\ (~ok1 /\ ~fn_ret.chain.scheduled) => WithoutRaise(fn_ret.chain)
       /\ fn_ret.op = "do_capture_after_raise"
          => IF fn_ret.captured
             THEN /\ fn_ret.sync.value = "raised"
                  /\ "area" \notin Range(fn_ret.sync.attempts)
             ELSE WithoutRaise(fn_ret.sync)


(***************************************************************************)
(* Properties of the display state machine, continued (specification Spec) *)
(***************************************************************************)
\* C24: a window-open/close notification queues a repopulate only when it is
\* received in Visible (one received in Hidden or Disabled has no effect), and
\* the repopulate it queued, with the enumeration it makes, executes only
\* while the state is Visible: never in Hidden, never in Disabled
C24_RepopulateOnlyVisible ==
    /\ last.op = "on_window_changed" => last.from = "visible"
    /\ last.op = "populate_windows" => last.from = "visible"

\* C25: a sampling tick never enumerates the directory before it returns
C25_TickNeverEnumerates ==
    last.op = "check_position" => ~last.enum


\* C27: a click or a context-menu request for an id that matches no window
\* changes nothing: not the state, not the can_hide latch, not the panel, the
\* pending hides or the timers, and not the two thumbnail dicts
C27_StaleRequestChangesNothing ==
    [][ last'.op \in {"on_window_clicked_stale", "show_context_menu_stale"}
          => UNCHANGED << display_core, cache_vars >> ]_vars


\* C30: every step that takes the state into Visible, whichever handler makes
\* it, sets last_show_time to the time of the step, and a sampling tick
\* initiates a hide only when 300 ms have passed since last_show_time
C30_ShowTimeRecorded ==
    /\ (last.from # "visible" /\ otter_state = "visible") => last_show_time = now
    /\ (last.op = "check_position" /\ last.init) => now - last_show_time >= ShowGraceMs


(***************************************************************************)
(* Properties of the timed display state machine (specification SpecTimed) *)
(***************************************************************************)
\* the pointer is outside the hotbox and outside the trigger zone
PointerAway ==
    /\ ~in_hotbox(pointer[1], pointer[2])
    /\ ~check_edge_trigger(pointer[1], pointer[2], cfg.edge, Monitor,
                           EDGE_TRIGGER_THRESHOLD)

\* C28: when the state is Visible, the grace period is over, no context menu
\* is open and the pointer is outside the hotbox and the trigger zone, then the
\* state becomes Hidden or the pointer comes back, whatever the hide delay is
C28_EventuallyHidden ==
    ( /\ otter_state = "visible"
      /\ now - last_show_time >= ShowGraceMs
      /\ ~menu_open
      /\ PointerAway )
        ~> (otter_state = "hidden" \/ ~PointerAway)


(***************************************************************************)
(* Properties of the window directory, continued (specification SpecDir)   *)
(***************************************************************************)
\* C26: when activate() failed with a text that holds a corruption signature,
\* the next get_user_windows call that gets past its first checks starts a
\* recreation, whatever the age of the handle and the call count are; when the
\* text holds no signature and neither threshold is passed it starts none
C26_CorruptionForcesRecreation ==
    /\ (ListCall /\ is_wnck_corruption(dir_last.after))
          => (dir_last.sched = 1 \/ dir_last.fail = 1)
    /\ ( /\ ListCall
         /\ dir_last.after # << >>
         /\ ~is_wnck_corruption(dir_last.after)
         /\ dir_last.age0 <= IntervalMs
         /\ dir_last.count0 <= WNCK_MAX_CALLS ) => dir_last.sched = 0


(***************************************************************************)
(* Properties of the startup (specification SpecStartup)                   *)
(***************************************************************************)
\* the progress reports made so far are (1, total), (2, total), ... in this order
ProgressInOrder ==
    \A j \in 1 .. Len(startup.reports) :
        startup.reports[j] = << j, Len(startup.snapshot) >>

\* the windows visited so far are the first windows of the snapshot, each
\* once, in the order of the snapshot
VisitedInOrder ==
    /\ Len(startup.visited) <= Len(startup.snapshot)
    /\ \A j \in 1 .. Len(startup.visited) : startup.visited[j] = startup.snapshot[j]

\* preprocess_startup_thumbnails has returned
PreprocessDone == startup.pc \in {"done", "main"}

\* C29: the sampling timer is armed only after preprocess_startup_thumbnails
\* has returned; the preprocessing visits the windows of its one snapshot in
\* order, each at most once, and reports (1, total), (2, total), ..., up to
\* (total, total) when it ends; and however it ends, it leaves
\* startup_preprocessing_active False and startup_splash None
C29_StartupPreprocessing ==
    /\ startup.monitor_id => PreprocessDone
    /\ ProgressInOrder
    /\ VisitedInOrder
    /\ PreprocessDone =>
          /\ ~startup.active
          /\ ~startup.splash
          /\ Len(startup.reports) = Len(startup.snapshot)


(***************************************************************************)
(* Properties of the window directory, the recreation protocol            *)
(* (specification SpecDir)                                                 *)
(***************************************************************************)
\* the place of a statement of recreate_wnck_screen in the order of the protocol
StepRank(step) ==
    CASE step = "recreating_true" -> 1
      [] step = "handle" -> 2
      [] step = "subscribed" -> 3
      [] step = "reset" -> 4
      [] step = "recreating_false" -> 5

\* the statements s of the recreations of one call: a recreation begins with
\* "recreating_true", the next one begins only after "recreating_false", and
\* inside a recreation the statements follow the order of the protocol
StepsInOrder(s) ==
    /\ s # << >> => s[1] = "recreating_true"
    /\ \A i \in 1 .. Len(s) - 1 :
         IF s[i + 1] = "recreating_true"
         THEN s[i] = "recreating_false"
         ELSE StepRank(s[i]) < StepRank(s[i + 1])

\* C31: recreations of the handle never overlap: a recreation starts only when
\* the one before has cleared wnck_recreating, and the flag is set exactly
\* while a recreation is under way; inside a recreation the flag is set, the
\* handle assigned, the notifications connected, wnck_last_recreation and
\* wnck_call_count reset and the flag cleared in this order; and screen_wnck
\* is assigned only while wnck_recreating is set
C31_RecreationProtocol ==
    /\ [](/\ StepsInOrder(dir_last.steps)
          /\ wnck_recreating <=> (dir_pc # "idle")
          /\ wnck_recreating <=>
               (dir_last.steps # << >>
                /\ dir_last.steps[Len(dir_last.steps)] # "recreating_false"))
    /\ [][screen_wnck' # screen_wnck => wnck_recreating]_vars

\* a call has run two recreations, the second of them with every step
C31_Witness ==
    /\ dir_pc = "idle"
    /\ dir_last.op = "get_user_windows"
    /\ dir_last.steps = << "recreating_true", "recreating_false",
                           "recreating_true", "handle", "subscribed", "reset",
                           "recreating_false" >>

(***************************************************************************)
(* Properties of the pure functions, the grid (specification SpecFn)       *)
(***************************************************************************)
\* the least k with k * d >= n: n / d rounded up
Ceil(n, d) == CHOOSE k \in 0 .. n : k * d >= n /\ (k = 0 \/ (k - 1) * d < n)

\* C32: for n windows and a fixed column count c the grid has
\* max(1, ceil(n / c)) rows and c columns; for a fixed row count r it has r
\* rows and max(1, ceil(n / r)) columns; for every n >= 0, so no window and
\* c = 4 give 1 row and 4 columns.
C32_LayoutDimensions ==
    fn_ret.op = "calculate_layout_dimensions" =>
        LET n == fn_call.window_count
            r == fn_call.nrows
            c == fn_call.ncols
        IN IF r = NoRows
           THEN fn_ret.value = << Max(1, Ceil(n, c)), c >>
           ELSE fn_ret.value = << r, Max(1, Ceil(n, r)) >>

(***************************************************************************)
(* Properties of the display state machine, the context menu               *)
(* (specification Spec)                                                    *)
(***************************************************************************)
\* C33: a context-menu request that cleared can_hide is followed by can_hide
\* being set again, also when the id resolves to no window or the menu cannot
\* be built: whenever can_hide is false, a menu is popped up whose
\* "deactivate" handler (_on_menu_closed) sets it, so the panel is never left
\* unable to hide with nothing that gives the ability back.
C33_CanHideComesBack ==
    ~can_hide => menu_open

\* C34: next_show_time is set exactly when the state is Disabled: it is set on
\* Visible -> Disabled and cleared on leaving Disabled, and the state is
\* never Hidden or Visible with a next_show_time pending.
C34_NextShowTimeIffDisabled ==
    /\ (otter_state = "disabled") <=> (next_show_time # NoTime)
    /\ (last.from = "visible" /\ otter_state = "disabled") => next_show_time # NoTime
    /\ (last.from = "disabled" /\ otter_state # "disabled") => next_show_time = NoTime

C36_ActiveWindowRestored ==
    (fn_ret.op = "do_capture_after_raise" /\ fn_ret.active = "other")
        => fn_ret.restored

C39_FailedActivationAbandons ==
    [][ last'.op = "on_window_clicked_activate_failed"
          => /\ UNCHANGED << idle_hide, delayed_hide_id, window_shown, otter_state >>
             /\ otter_state = "visible" => otter_state' = "visible" ]_vars

\* activate() failed on a click in Visible: no hide is pending, the panel is up
C39_Witness ==
    /\ last.op = "on_window_clicked_activate_failed"
    /\ last.from = "visible"
    /\ otter_state = "visible"
    /\ window_shown
    /\ idle_hide = 0
    /\ delayed_hide_id = NoTime

(***************************************************************************)
(* Properties of the suppression (specification SpecSuppress)              *)
(***************************************************************************)
\* C40: the suppression always ends: whenever the state is Disabled, with the
\* state timer firing as the main loop fires it, the state becomes Hidden,
\* also when the edge sampling was stopped.
C40_SuppressionEnds ==
    (otter_state = "disabled") ~> (otter_state = "hidden")
====
